---- MODULE Spec2Model ----
(***************************************************************************)
(* Card ranking / thresholding and duplicate detection of epub_to_anki.    *)
(* A session holds one caller-owned list of cards; the operations of       *)
(* ranker/card_ranker.py and deduplicator.py act on it.  The variable      *)
(* session is the rest of an EpubToAnkiAgent (agent.py): the loaded book,  *)
(* the chapters it holds cards of, its checkpoint object and the           *)
(* checkpoint file of each book's output directory (checkpoint.py).        *)
(*                                                                         *)
(* Strings are sequences of one-character strings.  A Python float that    *)
(* is a quotient of small integers is kept as an exact ratio and compared  *)
(* by cross-multiplication: scores are (2*importance + difficulty)/3,      *)
(* similarity ratios are (max_len - distance)/max_len.  Score thresholds   *)
(* are given in tenths, similarity thresholds in hundredths.               *)
(***************************************************************************)
EXTENDS Integers, Sequences, FiniteSets, TLC

VARIABLES cards, threshold, similarity_threshold, result, last, session

vars == <<cards, threshold, similarity_threshold, result, last, session>>

----------------------------------------------------------------------------
(* Bounds *)

(* the longest list of a session *)
MaxCards == 3

(* the longest list given to find_duplicates alone *)
MaxFindCards == 4

(* the longest list of a scoring run *)
MaxScoreCards == 3

(* the longest string given to the distance functions *)
MaxStrLen == 3

(* the longest list of an editing session *)
MaxEditCards == 2

(* the longest list of a session that creates reverse cards *)
MaxAgentCards == 3

(* the largest number of chapters of a book *)
MaxChapters == 3

(* the longest list of a sweep checked group by group *)
MaxSweepCards == 3

(* the longest list of a deduplication run *)
MaxDedupeCards == 3

(* the most cards of one run of the generate command *)
MaxPipeCards == 3

(* the longest version history of a card *)
MaxVersions == 3

----------------------------------------------------------------------------
(* models.py: CardStatus, CardFormat.  An Optional value is a sequence of  *)
(* length at most one: <<>> is None.  An Optional string is the string, with *)
(* None as the empty string (every reader applies `or ''`).                 *)

INCLUDED == "included"
EXCLUDED == "excluded"
QA == "qa"
CLOZE == "cloze"

----------------------------------------------------------------------------
(* deduplicator.py: normalize_text *)

UpperCase == {"A", "B", "C", "D", "X"}
LowerCase == {"a", "b", "c", "d", "x"}
Digits == {"0", "1", "2"}
WhiteSpace == {" ", "\n", "\t"}

(* str.lower() on one character *)
LowerChar(ch) ==
    CASE ch = "A" -> "a"
      [] ch = "B" -> "b"
      [] ch = "C" -> "c"
      [] ch = "D" -> "d"
      [] ch = "X" -> "x"
      [] OTHER -> ch

(* the regex class \w *)
IsWordChar(ch) == ch \in UpperCase \cup LowerCase \cup Digits \cup {"_"}

(* the regex class \s *)
IsSpaceChar(ch) == ch \in WhiteSpace

(* str.lower() *)
RECURSIVE lower(_)
lower(text) ==
    IF text = <<>> THEN <<>> ELSE <<LowerChar(Head(text))>> \o lower(Tail(text))

(* \d+ starting at p: the position of the last digit of the run, p - 1 if none *)
RECURSIVE DigitsEnd(_, _)
DigitsEnd(text, p) ==
    IF p <= Len(text) /\ text[p] \in Digits THEN DigitsEnd(text, p + 1) ELSE p - 1

(* (.*?)\}\} starting at q: the position of the first "}}" at or after q that  *)
(* is reached without crossing a newline ('.' does not match "\n"), 0 if none *)
RECURSIVE ClozeClose(_, _)
ClozeClose(text, q) ==
    IF q + 1 > Len(text) THEN 0
    ELSE IF text[q] = "}" /\ text[q + 1] = "}" THEN q
    ELSE IF text[q] = "\n" THEN 0
    ELSE ClozeClose(text, q + 1)

(* a match of \{\{c\d+::(.*?)\}\} at p: [start, stop] of the captured group *)
(* and the position after the match                                         *)
NoMatch == [found |-> FALSE, start |-> 0, stop |-> 0, next |-> 0]

ClozeMatch(text, p) ==
    IF p + 2 <= Len(text) /\ text[p] = "{" /\ text[p + 1] = "{" /\ text[p + 2] = "c"
    THEN LET e == DigitsEnd(text, p + 3) IN
         IF e >= p + 3 /\ e + 2 <= Len(text) /\ text[e + 1] = ":" /\ text[e + 2] = ":"
         THEN LET q == ClozeClose(text, e + 3) IN
              IF q # 0 THEN [found |-> TRUE, start |-> e + 3, stop |-> q - 1, next |-> q + 2]
              ELSE NoMatch
         ELSE NoMatch
    ELSE NoMatch

(* re.sub(r"\{\{c\d+::(.*?)\}\}", r"\1", text), scanning from p *)
RECURSIVE StripCloze(_, _)
StripCloze(text, p) ==
    IF p > Len(text) THEN <<>>
    ELSE LET m == ClozeMatch(text, p) IN
         IF m.found
         THEN SubSeq(text, m.start, m.stop) \o StripCloze(text, m.next)
         ELSE <<text[p]>> \o StripCloze(text, p + 1)

(* re.sub(r"[^\w\s]", "", text) *)
StripPunctuation(text) == SelectSeq(text, LAMBDA ch : IsWordChar(ch) \/ IsSpaceChar(ch))

(* re.sub(r"\s+", " ", text), scanning from p *)
RECURSIVE CollapseSpace(_, _)
CollapseSpace(text, p) ==
    IF p > Len(text) THEN <<>>
    ELSE IF IsSpaceChar(text[p])
         THEN IF p > 1 /\ IsSpaceChar(text[p - 1])
              THEN CollapseSpace(text, p + 1)
              ELSE <<" ">> \o CollapseSpace(text, p + 1)
         ELSE <<text[p]>> \o CollapseSpace(text, p + 1)

(* str.strip() *)
strip(text) ==
    LET keep == {k \in 1..Len(text) : ~IsSpaceChar(text[k])} IN
    IF keep = {} THEN <<>>
    ELSE SubSeq(text, CHOOSE k \in keep : \A m \in keep : k <= m,
                      CHOOSE k \in keep : \A m \in keep : k >= m)

normalize_text(text) ==
    strip(CollapseSpace(StripPunctuation(StripCloze(lower(text), 1)), 1))

(* deduplicator.py: get_card_text *)
get_card_text(card) ==
    IF card.format = QA THEN card.question \o <<" ">> \o card.answer
    ELSE card.cloze_text

----------------------------------------------------------------------------
(* deduplicator.py: levenshtein_distance, similarity_ratio *)

Min2(a, b) == IF a <= b THEN a ELSE b
Max2(a, b) == IF a >= b THEN a ELSE b

(* Mutation: the row is filled from insertions and deletions alone *)
RECURSIVE LevRowNoSubstitution(_, _, _, _)
LevRowNoSubstitution(c1, s2, previous_row, current_row) ==
    LET j == Len(current_row) IN
    IF j > Len(s2) THEN current_row
    ELSE LET insertions == previous_row[j + 1] + 1
             deletions == current_row[j] + 1
             same == IF c1 = s2[j] THEN previous_row[j] ELSE insertions
         IN LevRowNoSubstitution(c1, s2, previous_row,
                Append(current_row, Min2(Min2(insertions, deletions), same)))

(* the inner loop over s2 for one character c1: current_row grows by one    *)
(* entry per j (0-based j is Len(current_row) - 1)                          *)
RECURSIVE LevRow(_, _, _, _)
LevRow(c1, s2, previous_row, current_row) ==
    LET j == Len(current_row) IN   \* 1-based index of c2 in s2
    IF j > Len(s2) THEN current_row
    ELSE LET insertions == previous_row[j + 1] + 1
             deletions == current_row[j] + 1
             substitutions == previous_row[j] + (IF c1 # s2[j] THEN 1 ELSE 0)
         IN LevRow(c1, s2, previous_row,
                   Append(current_row, Min2(Min2(insertions, deletions), substitutions)))

(* the outer loop over s1, from its i-th character (1-based) *)
RECURSIVE LevRows(_, _, _, _)
LevRows(s1, s2, i, previous_row) ==
    IF i > Len(s1) THEN previous_row
    ELSE LevRows(s1, s2, i + 1, LevRow(s1[i], s2, previous_row, <<i>>))

RECURSIVE levenshtein_distance(_, _)
levenshtein_distance(s1, s2) ==
    IF Len(s1) < Len(s2) THEN levenshtein_distance(s2, s1)
    ELSE IF Len(s2) = 0 THEN Len(s1)
    ELSE LET last_row == LevRows(s1, s2, 1, [k \in 1..(Len(s2) + 1) |-> k - 1])
         IN last_row[Len(last_row)]

(* a float in [0, 1] kept as the exact ratio num/den *)
One == [num |-> 1, den |-> 1]
Zero == [num |-> 0, den |-> 1]

(* Mutation: the ratio of the lengths, whatever the distance *)
similarity_ratio_of_lengths(s1, s2) ==
    IF Len(s1) = 0 /\ Len(s2) = 0 THEN One
    ELSE IF Len(s1) = 0 \/ Len(s2) = 0 THEN Zero
    ELSE [num |-> Min2(Len(s1), Len(s2)), den |-> Max2(Len(s1), Len(s2))]

similarity_ratio(s1, s2) ==
    IF Len(s1) = 0 /\ Len(s2) = 0 THEN One
    ELSE IF Len(s1) = 0 \/ Len(s2) = 0 THEN Zero
    ELSE LET distance == levenshtein_distance(s1, s2)
             max_len == Max2(Len(s1), Len(s2))
         IN [num |-> max_len - distance, den |-> max_len]

(* Mutation: every ratio passes the threshold *)
SimAtLeastAlways(sim, thr100) == TRUE

(* sim >= similarity_threshold, the threshold in hundredths *)
SimAtLeast(sim, thr100) == 100 * sim.num >= thr100 * sim.den

----------------------------------------------------------------------------
(* models.py: Card.  A card is a record                                     *)
(*   [id, format, question, answer, cloze_text, importance, difficulty,     *)
(*    source_chapter_index, status];                                        *)
(* the caller's list `cards` holds the card objects, and a reference to a   *)
(* card object is its position in that list.                                *)

(* models.py: Card.compute_score; a float kept as the exact ratio num/den *)
compute_score(card) == [num |-> card.importance * 2 + card.difficulty, den |-> 3]

(* Mutation: the ranker weighs importance and difficulty equally *)
compute_card_score_unweighted(card) == [num |-> card.importance + card.difficulty, den |-> 2]

(* ranker/card_ranker.py: compute_card_score *)
compute_card_score(card) == [num |-> card.importance * 2 + card.difficulty, den |-> 3]

(* a >= b, a > b on ratios with positive denominators *)
RatioGeq(a, b) == a.num * b.den >= b.num * a.den
RatioGt(a, b) == a.num * b.den > b.num * a.den

(* a score threshold given in tenths, as a ratio *)
Tenths(t10) == [num |-> t10, den |-> 10]

(* ranker/card_ranker.py: get_default_threshold, in tenths *)
LIGHT == "light"
MEDIUM == "medium"
THOROUGH == "thorough"
Density == {LIGHT, MEDIUM, THOROUGH}

(* Mutation: the thresholds of LIGHT and THOROUGH are exchanged *)
get_default_threshold_swapped(density) ==
    CASE density = LIGHT -> 30
      [] density = MEDIUM -> 50
      [] density = THOROUGH -> 70

get_default_threshold(density) ==
    CASE density = LIGHT -> 70
      [] density = MEDIUM -> 50
      [] density = THOROUGH -> 30

(* ranker/card_ranker.py: apply_threshold, the status it assigns to one card *)
ThresholdStatus(card, t10) ==
    IF RatioGeq(compute_card_score(card), Tenths(t10)) THEN INCLUDED ELSE EXCLUDED

(* Mutation: an additive threshold, which never re-includes an excluded card *)
apply_threshold_additive(cs, t10) ==
    [k \in 1..Len(cs) |->
        IF cs[k].status = EXCLUDED THEN cs[k]
        ELSE [cs[k] EXCEPT !.status = ThresholdStatus(cs[k], t10)]]

(* ranker/card_ranker.py: apply_threshold *)
apply_threshold(cs, t10) ==
    [k \in 1..Len(cs) |-> [cs[k] EXCEPT !.status = ThresholdStatus(cs[k], t10)]]

(* Mutation: the preview compares with > where apply_threshold uses >= *)
RECURSIVE PreviewLoopStrict(_, _, _, _, _)
PreviewLoopStrict(cs, t10, k, included, excluded) ==
    IF k > Len(cs) THEN [included |-> included, excluded |-> excluded]
    ELSE IF RatioGt(compute_card_score(cs[k]), Tenths(t10))
         THEN PreviewLoopStrict(cs, t10, k + 1, included + 1, excluded)
         ELSE PreviewLoopStrict(cs, t10, k + 1, included, excluded + 1)

(* ranker/card_ranker.py: CardRanker.preview_threshold, the loop from card k *)
RECURSIVE PreviewLoop(_, _, _, _, _)
PreviewLoop(cs, t10, k, included, excluded) ==
    IF k > Len(cs) THEN [included |-> included, excluded |-> excluded]
    ELSE IF RatioGeq(compute_card_score(cs[k]), Tenths(t10))
         THEN PreviewLoop(cs, t10, k + 1, included + 1, excluded)
         ELSE PreviewLoop(cs, t10, k + 1, included, excluded + 1)

preview_threshold(cs, t10) ==
    LET counts == PreviewLoop(cs, t10, 1, 0, 0) IN
    [threshold |-> t10,
     would_include |-> counts.included,
     would_exclude |-> counts.excluded,
     total |-> Len(cs)]

(* Mutation: an unstable sort, a card goes before the cards of equal score *)
RECURSIVE InsertRankedUnstable(_, _, _)
InsertRankedUnstable(cs, ranked, r) ==
    IF ranked = <<>> THEN <<r>>
    ELSE IF RatioGt(compute_card_score(cs[Head(ranked)]), compute_card_score(cs[r]))
         THEN <<Head(ranked)>> \o InsertRankedUnstable(cs, Tail(ranked), r)
         ELSE <<r>> \o ranked

(* sorted(refs, key=score, reverse=True): a stable sort of the references   *)
(* refs into cs; InsertRanked puts r after every entry of score >= its own  *)
RECURSIVE InsertRanked(_, _, _)
InsertRanked(cs, ranked, r) ==
    IF ranked = <<>> THEN <<r>>
    ELSE IF RatioGeq(compute_card_score(cs[Head(ranked)]), compute_card_score(cs[r]))
         THEN <<Head(ranked)>> \o InsertRanked(cs, Tail(ranked), r)
         ELSE <<r>> \o ranked

RECURSIVE RankFrom(_, _, _)
RankFrom(cs, k, ranked) ==
    IF k > Len(cs) THEN ranked ELSE RankFrom(cs, k + 1, InsertRanked(cs, ranked, k))

(* ranker/card_ranker.py: rank_cards, the returned list as references into cs *)
rank_cards(cs) == RankFrom(cs, 1, <<>>)

(* scores.sort(): the score numerators (scores are num/3), ascending *)
RECURSIVE InsertSorted(_, _)
InsertSorted(sorted, x) ==
    IF sorted = <<>> THEN <<x>>
    ELSE IF Head(sorted) <= x THEN <<Head(sorted)>> \o InsertSorted(Tail(sorted), x)
    ELSE <<x>> \o sorted

RECURSIVE SortedScores(_, _, _)
SortedScores(cs, k, sorted) ==
    IF k > Len(cs) THEN sorted
    ELSE SortedScores(cs, k + 1, InsertSorted(sorted, compute_card_score(cs[k]).num))

RECURSIVE SumSeq(_)
SumSeq(xs) == IF xs = <<>> THEN 0 ELSE Head(xs) + SumSeq(Tail(xs))

(* round(x, 1) in tenths, x = r.num/r.den >= 0: the nearest tenth, and the  *)
(* even one when x is exactly halfway                                       *)
RoundTenths(r) ==
    LET fl == (10 * r.num) \div r.den
        rem == 10 * r.num - fl * r.den
    IN IF 2 * rem > r.den THEN fl + 1
       ELSE IF 2 * rem < r.den THEN fl
       ELSE IF fl % 2 = 0 THEN fl ELSE fl + 1

(* round(sum(scores) / len(scores), 1): the float sum of thirds carries a   *)
(* rounding error, which decides the result when the exact mean is halfway  *)
(* between two tenths                                                       *)
MeanTenths(r) ==
    LET fl == (10 * r.num) \div r.den
        rem == 10 * r.num - fl * r.den
    IN IF 2 * rem = r.den THEN {fl, fl + 1} ELSE {RoundTenths(r)}

(* Mutation: the median of an even count is the upper middle element *)
get_score_distribution_upper_median(cs) ==
    IF cs = <<>>
    THEN [min |-> 0, max |-> 0, median |-> 0, total |-> 0, buckets |-> <<>>]
    ELSE LET scores == SortedScores(cs, 1, <<>>)
             n == Len(scores)
         IN [min |-> RoundTenths([num |-> scores[1], den |-> 3]),
             max |-> RoundTenths([num |-> scores[n], den |-> 3]),
             median |-> RoundTenths([num |-> scores[(n \div 2) + 1], den |-> 3]),
             total |-> n,
             buckets |-> [low |-> Len(SelectSeq(scores, LAMBDA x : x < 12)),
                          medium |-> Len(SelectSeq(scores, LAMBDA x : 12 <= x /\ x < 18)),
                          high |-> Len(SelectSeq(scores, LAMBDA x : 18 <= x /\ x < 24)),
                          critical |-> Len(SelectSeq(scores, LAMBDA x : x >= 24))]]

(* Mutation: no early return, an empty batch gets a histogram of zeros *)
get_score_distribution_no_guard(cs) ==
    LET scores == SortedScores(cs, 1, <<>>)
        n == Len(scores)
        median == IF n = 0 THEN Zero
                  ELSE IF n % 2 = 1
                  THEN [num |-> scores[(n \div 2) + 1], den |-> 3]
                  ELSE [num |-> scores[n \div 2] + scores[(n \div 2) + 1], den |-> 6]
    IN [min |-> IF n = 0 THEN 0 ELSE RoundTenths([num |-> scores[1], den |-> 3]),
        max |-> IF n = 0 THEN 0 ELSE RoundTenths([num |-> scores[n], den |-> 3]),
        median |-> RoundTenths(median),
        total |-> n,
        buckets |-> [low |-> Len(SelectSeq(scores, LAMBDA x : x < 12)),
                     medium |-> Len(SelectSeq(scores, LAMBDA x : 12 <= x /\ x < 18)),
                     high |-> Len(SelectSeq(scores, LAMBDA x : 18 <= x /\ x < 24)),
                     critical |-> Len(SelectSeq(scores, LAMBDA x : x >= 24))]]

(* ranker/card_ranker.py: CardRanker.get_score_distribution, all but the    *)
(* mean; min, max and median in tenths                                      *)
get_score_distribution(cs) ==
    IF cs = <<>>
    THEN [min |-> 0, max |-> 0, median |-> 0, total |-> 0, buckets |-> <<>>]
    ELSE LET scores == SortedScores(cs, 1, <<>>)
             n == Len(scores)
             median == IF n % 2 = 1
                       THEN [num |-> scores[(n \div 2) + 1], den |-> 3]
                       ELSE [num |-> scores[n \div 2] + scores[(n \div 2) + 1], den |-> 6]
         IN [min |-> RoundTenths([num |-> scores[1], den |-> 3]),
             max |-> RoundTenths([num |-> scores[n], den |-> 3]),
             median |-> RoundTenths(median),
             total |-> n,
             buckets |-> [low |-> Len(SelectSeq(scores, LAMBDA x : x < 12)),
                          medium |-> Len(SelectSeq(scores, LAMBDA x : 12 <= x /\ x < 18)),
                          high |-> Len(SelectSeq(scores, LAMBDA x : 18 <= x /\ x < 24)),
                          critical |-> Len(SelectSeq(scores, LAMBDA x : x >= 24))]]

(* the values the returned "mean" may take *)
score_mean(cs) ==
    IF cs = <<>> THEN {0}
    ELSE MeanTenths([num |-> SumSeq(SortedScores(cs, 1, <<>>)), den |-> 3 * Len(cs)])

----------------------------------------------------------------------------
(* deduplicator.py: DuplicateGroup, DeduplicationResult.  A group is        *)
(*   [primary_card, duplicates, similarity_scores]                          *)
(* with references into the list find_duplicates was given.                 *)

(* DuplicateGroup.all_cards *)
all_cards(group) == <<group.primary_card>> \o group.duplicates

(* DuplicateGroup.count *)
count(group) == 1 + Len(group.duplicates)

RECURSIVE SumCountsMinusOne(_)
SumCountsMinusOne(groups) ==
    IF groups = <<>> THEN 0
    ELSE (count(Head(groups)) - 1) + SumCountsMinusOne(Tail(groups))

(* DeduplicationResult.duplicates_found *)
duplicates_found(res) == SumCountsMinusOne(res.duplicate_groups)

(* the state of one sweep: the group being built (inner loop) or the groups *)
(* emitted so far (outer loop), the assigned ids and the two counters       *)

(* Mutations of the three tests: no card is ever seen as assigned; the      *)
(* chapter test is dropped; the exact test is dropped                       *)
AssignedNever(card, assigned) == FALSE
SkipPairNever(cross_chapter, card1, card2) == FALSE
ExactMatchNever(text1, text2) == FALSE

(* Mutation: no pair is ever compared *)
SkipPairAlways(cross_chapter, card1, card2) == TRUE

(* `if card.id in assigned` *)
Assigned(card, assigned) == card.id \in assigned

(* `if not cross_chapter and card1.source_chapter_index !=                  *)
(*  card2.source_chapter_index`                                             *)
SkipPair(cross_chapter, card1, card2) ==
    ~cross_chapter /\ card1.source_chapter_index # card2.source_chapter_index

(* `if text1 == text2` *)
ExactMatch(text1, text2) == text1 = text2

(* deduplicator.py: find_duplicates, the inner loop over cards j.. for the  *)
(* primary i                                                                *)
RECURSIVE InnerScan(_, _, _, _, _, _, _)
InnerScan(cs, norm, thr100, cross_chapter, i, j, st) ==
    IF j > Len(cs) THEN st
    ELSE IF Assigned(cs[j], st.assigned)
         THEN InnerScan(cs, norm, thr100, cross_chapter, i, j + 1, st)
    ELSE IF SkipPair(cross_chapter, cs[i], cs[j])
         THEN InnerScan(cs, norm, thr100, cross_chapter, i, j + 1, st)
    ELSE IF ExactMatch(norm[i], norm[j])
         THEN InnerScan(cs, norm, thr100, cross_chapter, i, j + 1,
                  [st EXCEPT !.group.duplicates = Append(@, j),
                             !.group.similarity_scores = Append(@, One),
                             !.assigned = @ \cup {cs[j].id},
                             !.exact_count = @ + 1])
    ELSE LET sim == similarity_ratio(norm[i], norm[j]) IN
         IF SimAtLeast(sim, thr100)
         THEN InnerScan(cs, norm, thr100, cross_chapter, i, j + 1,
                  [st EXCEPT !.group.duplicates = Append(@, j),
                             !.group.similarity_scores = Append(@, sim),
                             !.assigned = @ \cup {cs[j].id},
                             !.similar_count = @ + 1])
         ELSE InnerScan(cs, norm, thr100, cross_chapter, i, j + 1, st)

(* deduplicator.py: find_duplicates, the outer loop from card i *)
RECURSIVE OuterScan(_, _, _, _, _, _)
OuterScan(cs, norm, thr100, cross_chapter, i, st) ==
    IF i > Len(cs) THEN st
    ELSE IF Assigned(cs[i], st.assigned)
         THEN OuterScan(cs, norm, thr100, cross_chapter, i + 1, st)
    ELSE LET start == [group |-> [primary_card |-> i, duplicates |-> <<>>,
                                  similarity_scores |-> <<>>],
                       assigned |-> st.assigned \cup {cs[i].id},
                       exact_count |-> st.exact_count,
                       similar_count |-> st.similar_count]
             done == InnerScan(cs, norm, thr100, cross_chapter, i, i + 1, start)
         IN OuterScan(cs, norm, thr100, cross_chapter, i + 1,
                [duplicate_groups |->
                     IF done.group.duplicates # <<>>
                     THEN Append(st.duplicate_groups, done.group)
                     ELSE st.duplicate_groups,
                 assigned |-> done.assigned,
                 exact_count |-> done.exact_count,
                 similar_count |-> done.similar_count])

(* `normalized_cards`: the normalized text of every card from the k-th on *)
RECURSIVE NormalizeFrom(_, _)
NormalizeFrom(cs, k) ==
    IF k > Len(cs) THEN <<>>
    ELSE <<normalize_text(get_card_text(cs[k]))>> \o NormalizeFrom(cs, k + 1)

(* Mutation: the sweep always stays within chapters *)
find_duplicates_within_chapters(cs, thr100, cross_chapter) ==
    IF cs = <<>>
    THEN [total_cards |-> 0, unique_cards |-> 0, duplicate_groups |-> <<>>,
          exact_duplicates |-> 0, similar_duplicates |-> 0]
    ELSE LET norm == NormalizeFrom(cs, 1)
             st == OuterScan(cs, norm, thr100, FALSE, 1,
                       [duplicate_groups |-> <<>>, assigned |-> {},
                        exact_count |-> 0, similar_count |-> 0])
         IN [total_cards |-> Len(cs),
             unique_cards |-> Len(cs) - st.exact_count - st.similar_count,
             duplicate_groups |-> st.duplicate_groups,
             exact_duplicates |-> st.exact_count,
             similar_duplicates |-> st.similar_count]

(* deduplicator.py: CardDeduplicator.find_duplicates *)
find_duplicates(cs, thr100, cross_chapter) ==
    IF cs = <<>>
    THEN [total_cards |-> 0, unique_cards |-> 0, duplicate_groups |-> <<>>,
          exact_duplicates |-> 0, similar_duplicates |-> 0]
    ELSE LET norm == NormalizeFrom(cs, 1)
             st == OuterScan(cs, norm, thr100, cross_chapter, 1,
                       [duplicate_groups |-> <<>>, assigned |-> {},
                        exact_count |-> 0, similar_count |-> 0])
         IN [total_cards |-> Len(cs),
             unique_cards |-> Len(cs) - st.exact_count - st.similar_count,
             duplicate_groups |-> st.duplicate_groups,
             exact_duplicates |-> st.exact_count,
             similar_duplicates |-> st.similar_count]

----------------------------------------------------------------------------
(* deduplicator.py: CardDeduplicator.mark_duplicates_excluded *)

FIRST == "first"
HIGHEST_SCORE == "highest_score"
HIGHEST_IMPORTANCE == "highest_importance"
KeepStrategies == {FIRST, HIGHEST_SCORE, HIGHEST_IMPORTANCE}

(* Mutation: the last maximum wins *)
RECURSIVE MaxByScoreLast(_, _, _)
MaxByScoreLast(cs, refs, best) ==
    IF refs = <<>> THEN best
    ELSE IF RatioGeq(compute_score(cs[Head(refs)]), compute_score(cs[best]))
         THEN MaxByScoreLast(cs, Tail(refs), Head(refs))
         ELSE MaxByScoreLast(cs, Tail(refs), best)

(* max(refs, key=...) by score: the first maximum wins (a later entry       *)
(* replaces the best only when its key is strictly greater)                 *)
RECURSIVE MaxByScore(_, _, _)
MaxByScore(cs, refs, best) ==
    IF refs = <<>> THEN best
    ELSE IF RatioGt(compute_score(cs[Head(refs)]), compute_score(cs[best]))
         THEN MaxByScore(cs, Tail(refs), Head(refs))
         ELSE MaxByScore(cs, Tail(refs), best)

RECURSIVE MaxByImportance(_, _, _)
MaxByImportance(cs, refs, best) ==
    IF refs = <<>> THEN best
    ELSE IF cs[Head(refs)].importance > cs[best].importance
         THEN MaxByImportance(cs, Tail(refs), Head(refs))
         ELSE MaxByImportance(cs, Tail(refs), best)

(* best_card of one group under a strategy that picks one *)
best_card(cs, group, keep_strategy) ==
    IF keep_strategy = HIGHEST_SCORE
    THEN MaxByScore(cs, group.duplicates, group.primary_card)
    ELSE MaxByImportance(cs, group.duplicates, group.primary_card)

(* Mutation: the last card of the list is left as it is *)
RECURSIVE ExcludeAllButLast(_, _)
ExcludeAllButLast(acc, refs) ==
    IF Len(refs) <= 1 THEN acc
    ELSE ExcludeAllButLast([cards |-> [acc.cards EXCEPT ![Head(refs)].status = EXCLUDED],
                            excluded_count |-> acc.excluded_count + 1], Tail(refs))

(* `for card in refs: card.status = EXCLUDED; excluded_count += 1` *)
RECURSIVE ExcludeAll(_, _)
ExcludeAll(acc, refs) ==
    IF refs = <<>> THEN acc
    ELSE ExcludeAll([cards |-> [acc.cards EXCEPT ![Head(refs)].status = EXCLUDED],
                     excluded_count |-> acc.excluded_count + 1], Tail(refs))

(* Mutation: the status of a card other than the best is flipped *)
RECURSIVE ExcludeOthersToggle(_, _, _)
ExcludeOthersToggle(acc, refs, best_id) ==
    IF refs = <<>> THEN acc
    ELSE IF acc.cards[Head(refs)].id # best_id
         THEN ExcludeOthersToggle(
                  [cards |-> [acc.cards EXCEPT ![Head(refs)].status =
                                  IF @ = EXCLUDED THEN INCLUDED ELSE EXCLUDED],
                   excluded_count |-> acc.excluded_count + 1],
                  Tail(refs), best_id)
         ELSE ExcludeOthersToggle(acc, Tail(refs), best_id)

(* Mutation: only a card that was not excluded yet is counted *)
RECURSIVE ExcludeOthersNew(_, _, _)
ExcludeOthersNew(acc, refs, best_id) ==
    IF refs = <<>> THEN acc
    ELSE IF acc.cards[Head(refs)].id # best_id
         THEN ExcludeOthersNew(
                  [cards |-> [acc.cards EXCEPT ![Head(refs)].status = EXCLUDED],
                   excluded_count |-> acc.excluded_count +
                       (IF acc.cards[Head(refs)].status = EXCLUDED THEN 0 ELSE 1)],
                  Tail(refs), best_id)
         ELSE ExcludeOthersNew(acc, Tail(refs), best_id)

(* `for card in refs: if card.id != best_id: ...` *)
RECURSIVE ExcludeOthers(_, _, _)
ExcludeOthers(acc, refs, best_id) ==
    IF refs = <<>> THEN acc
    ELSE IF acc.cards[Head(refs)].id # best_id
         THEN ExcludeOthers([cards |-> [acc.cards EXCEPT ![Head(refs)].status = EXCLUDED],
                             excluded_count |-> acc.excluded_count + 1],
                            Tail(refs), best_id)
         ELSE ExcludeOthers(acc, Tail(refs), best_id)

(* Mutation: the card that is kept is set to INCLUDED *)
MarkGroupForceSurvivor(acc, group, keep_strategy) ==
    IF keep_strategy = FIRST
    THEN LET out == ExcludeAll(acc, group.duplicates) IN
         [out EXCEPT !.cards[group.primary_card].status = INCLUDED]
    ELSE IF keep_strategy \in {HIGHEST_SCORE, HIGHEST_IMPORTANCE}
    THEN LET best == best_card(acc.cards, group, keep_strategy)
             out == ExcludeOthers(acc, all_cards(group), acc.cards[best].id)
         IN [out EXCEPT !.cards[best].status = INCLUDED]
    ELSE acc

(* Mutation: the best card is sought among all members, but only the        *)
(* duplicates are ever excluded                                             *)
MarkGroupDuplicatesOnly(acc, group, keep_strategy) ==
    IF keep_strategy = FIRST
    THEN ExcludeAll(acc, group.duplicates)
    ELSE IF keep_strategy \in {HIGHEST_SCORE, HIGHEST_IMPORTANCE}
    THEN ExcludeOthers(acc, group.duplicates,
                       acc.cards[best_card(acc.cards, group, keep_strategy)].id)
    ELSE acc

(* the body of the loop over groups, for one group *)
MarkGroup(acc, group, keep_strategy) ==
    IF keep_strategy = FIRST
    THEN ExcludeAll(acc, group.duplicates)
    ELSE IF keep_strategy \in {HIGHEST_SCORE, HIGHEST_IMPORTANCE}
    THEN ExcludeOthers(acc, all_cards(group),
                       acc.cards[best_card(acc.cards, group, keep_strategy)].id)
    ELSE acc

RECURSIVE MarkGroups(_, _, _)
MarkGroups(acc, groups, keep_strategy) ==
    IF groups = <<>> THEN acc
    ELSE MarkGroups(MarkGroup(acc, Head(groups), keep_strategy), Tail(groups), keep_strategy)

(* returns the cards as mutated, the returned count, and whether the call   *)
(* raised (it has no raise statement)                                       *)
mark_duplicates_excluded(cs, res, keep_strategy) ==
    LET acc == MarkGroups([cards |-> cs, excluded_count |-> 0],
                          res.duplicate_groups, keep_strategy)
    IN [cards |-> acc.cards, excluded_count |-> acc.excluded_count, raised |-> FALSE]

----------------------------------------------------------------------------
(* The session: the caller's card list (a ChapterCards batch with its       *)
(* recorded threshold), the deduplicator with its similarity_threshold, the *)
(* last DeduplicationResult the caller holds, and a record of the last      *)
(* call: its name, argument, return value, and the cards and the recorded   *)
(* threshold before it.                                                     *)

(* card contents the generator may produce *)
AbC == [format |-> QA, question |-> <<"A", "b">>, answer |-> <<"c", "!">>, cloze_text |-> <<>>]
ClozeAbC == [format |-> CLOZE, question |-> <<>>, answer |-> <<>>,
             cloze_text |-> <<"{", "{", "c", "1", ":", ":", "a", "b", "}", "}", " ", "c">>]
AbD == [format |-> QA, question |-> <<"a", "b">>, answer |-> <<"d">>, cloze_text |-> <<>>]
XbD == [format |-> QA, question |-> <<"x", "b">>, answer |-> <<"d">>, cloze_text |-> <<>>]

(* "ab c" twice (written differently), "ab d" one edit from it and "xb d"   *)
(* one edit further                                                         *)
Contents == {AbC, ClozeAbC, AbD, XbD}

(* the contents of the rated lists: near-duplicates at 0.75, not at 0.85 *)
RatedContents == {AbC, AbD}

(* (importance, difficulty) pairs: scores 11/3 and 5, importance reversed *)
Ratings == { <<5, 1>>, <<4, 7>> }
DefaultRating == <<4, 7>>

Chapters == {0, 1}

(* score thresholds in tenths: the three density defaults *)
ScoreThresholds == {30, 50, 70}

(* similarity thresholds in hundredths: the default and a looser one *)
SimThresholds == {75, 85}

(* a keep_strategy that is none of the three *)
BadStrategy == "lowest_score"

NewCard(k, content, rating, chapter) ==
    [id |-> ToString(k),
     format |-> content.format,
     question |-> content.question,
     answer |-> content.answer,
     cloze_text |-> content.cloze_text,
     importance |-> rating[1],
     difficulty |-> rating[2],
     source_chapter_index |-> chapter,
     status |-> INCLUDED,
     version_history |-> <<>>,
     is_reverse |-> FALSE,
     original_card_id |-> <<>>]

(* a generated list of one chapter: contents c and ratings r vary *)
RatedList(n, c, r) == [k \in 1..n |-> NewCard(k, c[k], r[k], 0)]

(* a generated list of one rating: contents c and chapters ch vary *)
ChapterList(n, c, ch) == [k \in 1..n |-> NewCard(k, c[k], DefaultRating, ch[k])]

(* the cards of one chapter, in their order *)
ChapterCards(cs, chapter) == SelectSeq(cs, LAMBDA card : card.source_chapter_index = chapter)

(* The agent's session state beside the cards: the title of the book loaded *)
(* (<<>> for none), the indices that are keys of chapter_cards, the         *)
(* checkpoint object the agent holds (<<>> for None), and the checkpoint    *)
(* file of each book's output directory (<<>> for no file).  A checkpoint   *)
(* is its book_title and its chapters_processed, a function from chapter    *)
(* indices to the cards saved for the chapter.                              *)
NoSession == [book |-> <<>>, chapter_cards |-> {}, checkpoint |-> <<>>, files |-> <<>>]

(* agent.py: _save_checkpoint, with checkpoint.py: create_checkpoint,       *)
(* add_chapter and save; cs are the cards of the session                    *)
save_checkpoint(s, cs) ==
    IF s.book = <<>> THEN s
    ELSE LET held == IF s.checkpoint = <<>>
                     THEN [book_title |-> s.book[1], chapters_processed |-> <<>>]
                     ELSE s.checkpoint[1]
             saved == [held EXCEPT !.chapters_processed =
                          [chapter \in (DOMAIN held.chapters_processed) \cup s.chapter_cards |->
                              IF chapter \in s.chapter_cards
                              THEN ChapterCards(cs, chapter)
                              ELSE held.chapters_processed[chapter]]]
         IN [s EXCEPT !.checkpoint = <<saved>>,
                      !.files = IF s.chapter_cards = {} THEN @
                                ELSE [@ EXCEPT ![s.book[1]] = <<saved>>]]

Call(op, arg, ret, pre) ==
    [op |-> op, arg |-> arg, ret |-> ret, pre |-> pre, pre_threshold |-> threshold]

InitSession(cs) ==
    /\ cards = cs
    /\ threshold = <<>>
    /\ similarity_threshold = 85
    /\ result = <<>>
    /\ session = NoSession
    /\ last = Call("init", <<>>, <<>>, cards)

(* ranker/card_ranker.py: apply_threshold(cards, threshold) *)
ApplyThreshold(t10) ==
    /\ cards' = apply_threshold(cards, t10)
    /\ last' = Call("apply_threshold", t10, <<>>, cards)
    /\ UNCHANGED <<session, threshold, similarity_threshold, result>>

(* ranker/card_ranker.py: CardRanker.apply_custom_threshold *)
ApplyCustomThreshold(t10) ==
    /\ threshold' = <<t10>>
    /\ cards' = apply_threshold(cards, t10)
    /\ last' = Call("apply_custom_threshold", t10, <<>>, cards)
    /\ UNCHANGED <<session, similarity_threshold, result>>

(* ranker/card_ranker.py: CardRanker.apply_density_threshold *)
ApplyDensityThreshold(density) ==
    /\ threshold' = <<get_default_threshold(density)>>
    /\ cards' = apply_threshold(cards, get_default_threshold(density))
    /\ last' = Call("apply_density_threshold", density, <<>>, cards)
    /\ UNCHANGED <<session, similarity_threshold, result>>

(* Mutation: the preview records its threshold on the batch *)
PreviewThresholdRecords(t10) ==
    /\ threshold' = <<t10>>
    /\ last' = Call("preview_threshold", t10, preview_threshold(cards, t10), cards)
    /\ UNCHANGED <<session, cards, similarity_threshold, result>>

(* ranker/card_ranker.py: CardRanker.preview_threshold *)
PreviewThreshold(t10) ==
    /\ last' = Call("preview_threshold", t10, preview_threshold(cards, t10), cards)
    /\ UNCHANGED <<session, cards, threshold, similarity_threshold, result>>

(* ranker/card_ranker.py: CardRanker.get_score_distribution *)
GetScoreDistribution ==
    /\ \E mean \in score_mean(cards) :
          last' = Call("get_score_distribution", <<>>,
                       [stats |-> get_score_distribution(cards), mean |-> mean], cards)
    /\ UNCHANGED <<session, cards, threshold, similarity_threshold, result>>

(* ranker/card_ranker.py: rank_cards *)
RankCards ==
    /\ last' = Call("rank_cards", <<>>, rank_cards(cards), cards)
    /\ UNCHANGED <<session, cards, threshold, similarity_threshold, result>>

(* agent.py: `for card in ...cards: if card.id == card_id`: the position of *)
(* the first card of that id, 0 when there is none                          *)
FirstWithId(cs, card_id) ==
    IF \E k \in DOMAIN cs : cs[k].id = card_id
    THEN CHOOSE k \in DOMAIN cs :
             cs[k].id = card_id /\ \A j \in 1..(k - 1) : cs[j].id # card_id
    ELSE 0

(* agent.py: toggle_card, called with the id of the k-th card *)
ToggleCard(k) ==
    /\ k \in 1..Len(cards)
    /\ LET target == FirstWithId(cards, cards[k].id) IN
       cards' = [cards EXCEPT ![target].status =
                     IF @ = INCLUDED THEN EXCLUDED ELSE INCLUDED]
    /\ last' = Call("toggle_card", k, cards'[FirstWithId(cards, cards[k].id)].status, cards)
    /\ session' = save_checkpoint(session, cards')
    /\ UNCHANGED <<threshold, similarity_threshold, result>>

(* deduplicator.py: find_duplicates on a deduplicator whose threshold the   *)
(* caller has set (agent.py: find_duplicates sets it before the call)       *)
FindDuplicates(thr100, cross_chapter) ==
    /\ similarity_threshold' = thr100
    /\ result' = <<find_duplicates(cards, thr100, cross_chapter)>>
    /\ last' = Call("find_duplicates", <<thr100, cross_chapter>>, result'[1], cards)
    /\ UNCHANGED <<session, cards, threshold>>

(* deduplicator.py: mark_duplicates_excluded on the result the caller holds *)
MarkDuplicatesExcluded(keep_strategy) ==
    /\ result # <<>>
    /\ LET out == mark_duplicates_excluded(cards, result[1], keep_strategy) IN
       /\ cards' = out.cards
       /\ last' = Call("mark_duplicates_excluded", keep_strategy,
                       [raised |-> out.raised, excluded_count |-> out.excluded_count], cards)
    /\ UNCHANGED <<session, threshold, similarity_threshold, result>>

(* the ratings of the scoring runs: scores 1.0, 11/3 twice, 4.0, 5.0, 6.0,  *)
(* 8.0 and 10.0, on and between the bucket boundaries                       *)
ScoreRatings ==
    { <<1, 1>>, <<5, 1>>, <<4, 3>>, <<4, 4>>, <<4, 7>>, <<7, 4>>, <<8, 8>>, <<10, 10>> }

(* a generated list of one content: ratings r vary *)
ScoreList(n, r) == [k \in 1..n |-> NewCard(k, AbD, r[k], 0)]

(* The deduplication session: thresholds, hand toggles, find and mark *)
Init ==
    \E n \in 0..MaxCards : \E c \in [1..n -> RatedContents], r \in [1..n -> Ratings] :
        InitSession(RatedList(n, c, r))

Next ==
    \/ \E t10 \in ScoreThresholds : ApplyThreshold(t10)
    \/ \E k \in 1..MaxCards : ToggleCard(k)
    \/ \E thr100 \in SimThresholds : FindDuplicates(thr100, TRUE)
    \/ \E keep_strategy \in KeepStrategies \cup {BadStrategy} :
           MarkDuplicatesExcluded(keep_strategy)

Spec == Init /\ [][Next]_vars

(* find_duplicates alone, called once on a fresh list that spans chapters *)
InitFind ==
    \E n \in 0..MaxFindCards : \E c \in [1..n -> Contents], ch \in [1..n -> Chapters] :
        InitSession(ChapterList(n, c, ch))

NextFind ==
    /\ last.op = "init"
    /\ \E thr100 \in SimThresholds, cross_chapter \in BOOLEAN :
           FindDuplicates(thr100, cross_chapter)

SpecFind == InitFind /\ [][NextFind]_vars

(* the ranker on one batch, with the read-only calls *)
InitRank ==
    \E n \in 0..MaxCards : \E c \in [1..n -> RatedContents], r \in [1..n -> Ratings] :
        InitSession(RatedList(n, c, r))

NextRank ==
    \/ \E t10 \in ScoreThresholds : ApplyCustomThreshold(t10)
    \/ \E density \in Density : ApplyDensityThreshold(density)
    \/ \E t10 \in ScoreThresholds : PreviewThreshold(t10)
    \/ GetScoreDistribution
    \/ RankCards
    \/ \E thr100 \in SimThresholds : FindDuplicates(thr100, TRUE)

SpecRank == InitRank /\ [][NextRank]_vars

----------------------------------------------------------------------------
(* Properties *)

(* the references held by a group, as a set *)
Members(group) == {group.primary_card} \cup {group.duplicates[d] : d \in DOMAIN group.duplicates}

(* every group of a result, flattened to one sequence of references *)
RECURSIVE Flatten(_)
Flatten(groups) ==
    IF groups = <<>> THEN <<>> ELSE all_cards(Head(groups)) \o Flatten(Tail(groups))

NoRepeats(refs) == \A a, b \in DOMAIN refs : a # b => refs[a] # refs[b]

DistinctIds(cs) == \A a, b \in DOMAIN cs : a # b => cs[a].id # cs[b].id

(* the normalized text of the k-th card *)
Norm(cs, k) == normalize_text(get_card_text(cs[k]))

(* a similarity score that is 1.0 *)
IsOne(sim) == sim.num = sim.den

(* the call just made *)
Found == last.op = "find_duplicates"
FoundCross == Found /\ last.arg[2]
FoundWithin == Found /\ ~last.arg[2]

(* C2: the result of find_duplicates over cards with distinct ids lists     *)
(* every card at most once across all groups, has total_cards = len(cards), *)
(* unique + exact + similar = total, and duplicates_found = exact + similar *)
C2_Partition ==
    (Found /\ DistinctIds(cards)) =>
        LET res == last.ret IN
        /\ NoRepeats(Flatten(res.duplicate_groups))
        /\ \A r \in DOMAIN Flatten(res.duplicate_groups) :
               Flatten(res.duplicate_groups)[r] \in DOMAIN cards
        /\ res.total_cards = Len(cards)
        /\ res.unique_cards + res.exact_duplicates + res.similar_duplicates = res.total_cards
        /\ duplicates_found(res) = res.exact_duplicates + res.similar_duplicates

(* two groups, one with an exact and one with a similar duplicate *)
C2_Witness ==
    /\ Found /\ DistinctIds(cards)
    /\ Len(last.ret.duplicate_groups) = 2
    /\ last.ret.exact_duplicates >= 1
    /\ last.ret.similar_duplicates >= 1

RatioEq(a, b) == a.num * b.den = b.num * a.den

(* the similarity score recorded for the reference m in the group *)
ScoreOf(group, m) ==
    group.similarity_scores[CHOOSE d \in DOMAIN group.duplicates : group.duplicates[d] = m]

(* pairs a < b of cards with equal normalized text *)
EqualPairs(cs) ==
    LET norm == NormalizeFrom(cs, 1) IN
    {p \in (DOMAIN cs) \X (DOMAIN cs) : p[1] < p[2] /\ norm[p[1]] = norm[p[2]]}

GroupsOf(res) == {res.duplicate_groups[g] : g \in DOMAIN res.duplicate_groups}

(* the duplicates, over all groups, whose normalized text equals their primary's *)
ExactEntries(cs, res) ==
    LET norm == NormalizeFrom(cs, 1) IN
    {e \in (DOMAIN res.duplicate_groups) \X (DOMAIN cs) :
        LET group == res.duplicate_groups[e[1]] IN
        /\ e[2] \in Members(group) \ {group.primary_card}
        /\ norm[e[2]] = norm[group.primary_card]}

(* C3 as claimed: with cross_chapter=True two cards of equal normalized     *)
(* text are always in one group and whichever of them is a duplicate there  *)
(* was joined with similarity 1.0                                           *)
C3_ExactAlwaysOne ==
    (FoundCross /\ DistinctIds(cards)) =>
        \A p \in EqualPairs(cards) :
            \E group \in GroupsOf(last.ret) :
                /\ {p[1], p[2]} \subseteq Members(group)
                /\ \A m \in {p[1], p[2]} \ {group.primary_card} : IsOne(ScoreOf(group, m))

(* C3 as amended: with cross_chapter=True two cards of equal normalized     *)
(* text are always in one group; if the earlier one is its primary the      *)
(* later one was joined with similarity 1.0; if both are duplicates of a    *)
(* third card they carry the same similarity to it, which is 1.0 exactly    *)
(* when that primary has their normalized text; and exact_duplicates counts *)
(* exactly the duplicates whose normalized text equals their primary's      *)
C3_ExactSameGroup ==
    (FoundCross /\ DistinctIds(cards)) =>
        /\ \A p \in EqualPairs(cards) :
               \E group \in GroupsOf(last.ret) :
                   /\ {p[1], p[2]} \subseteq Members(group)
                   /\ group.primary_card # p[2]
                   /\ group.primary_card = p[1] => IsOne(ScoreOf(group, p[2]))
                   /\ group.primary_card # p[1] =>
                          /\ RatioEq(ScoreOf(group, p[1]), ScoreOf(group, p[2]))
                          /\ IsOne(ScoreOf(group, p[1])) <=>
                                 Norm(cards, group.primary_card) = Norm(cards, p[1])
        /\ last.ret.exact_duplicates = Cardinality(ExactEntries(cards, last.ret))

(* two cards written differently with one normalized text, both duplicates  *)
(* of an earlier near-duplicate, joined below 1.0                           *)
C3_Witness ==
    /\ FoundCross /\ DistinctIds(cards)
    /\ \E p \in EqualPairs(cards) :
          /\ get_card_text(cards[p[1]]) # get_card_text(cards[p[2]])
          /\ \E group \in GroupsOf(last.ret) :
                /\ {p[1], p[2]} \subseteq Members(group) \ {group.primary_card}
                /\ ~IsOne(ScoreOf(group, p[1]))

(* C8: with cross_chapter=False every member of a group has the chapter of  *)
(* its primary; with cross_chapter=True two cards of equal normalized text  *)
(* from different chapters are in one group                                 *)
C8_CrossChapter ==
    (Found /\ DistinctIds(cards)) =>
        /\ FoundWithin =>
               \A group \in GroupsOf(last.ret) : \A m \in Members(group) :
                   cards[m].source_chapter_index = cards[group.primary_card].source_chapter_index
        /\ FoundCross =>
               \A p \in EqualPairs(cards) :
                   cards[p[1]].source_chapter_index # cards[p[2]].source_chapter_index =>
                       \E group \in GroupsOf(last.ret) : {p[1], p[2]} \subseteq Members(group)

(* cross_chapter=False: equal texts in different chapters, the first of     *)
(* them grouped with a card of its own chapter only                         *)
C8_Witness ==
    /\ FoundWithin /\ DistinctIds(cards)
    /\ \E p \in EqualPairs(cards) :
          /\ cards[p[1]].source_chapter_index # cards[p[2]].source_chapter_index
          /\ \E group \in GroupsOf(last.ret) :
                p[1] \in Members(group) /\ p[2] \notin Members(group)

----------------------------------------------------------------------------
(* Properties of the threshold and of mark_duplicates_excluded *)

Thresholded == last.op = "apply_threshold"
Marked == last.op = "mark_duplicates_excluded"
MarkedValid == Marked /\ last.arg \in KeepStrategies

(* the references of status st in cs *)
WithStatus(cs, st) == {k \in DOMAIN cs : cs[k].status = st}

(* C1: after apply_threshold(cards, t) a card is INCLUDED exactly when      *)
(* (2*importance + difficulty)/3 >= t and EXCLUDED otherwise, whatever its  *)
(* status was before                                                        *)
C1_FullOverwrite ==
    Thresholded =>
        \A k \in DOMAIN cards :
            /\ cards[k].status = INCLUDED <=>
                   10 * (2 * cards[k].importance + cards[k].difficulty) >= 3 * last.arg
            /\ cards[k].status \in {INCLUDED, EXCLUDED}

(* a card excluded before the call, of score equal to the threshold, is     *)
(* included after it                                                        *)
C1_Witness ==
    /\ Thresholded
    /\ \E k \in DOMAIN cards :
          /\ last.pre[k].status = EXCLUDED
          /\ 10 * (2 * cards[k].importance + cards[k].difficulty) = 3 * last.arg
          /\ cards[k].status = INCLUDED

(* a member of the group such that every other member is EXCLUDED and its   *)
(* own status is what it was before the call                                *)
Survivors(group) ==
    {m \in Members(group) :
        /\ cards[m].status = last.pre[m].status
        /\ \A o \in Members(group) \ {m} : cards[o].status = EXCLUDED}

(* C4: after mark_duplicates_excluded with one of the three strategies,     *)
(* every group has a survivor, every other member is EXCLUDED, and at most  *)
(* one member of a group is not EXCLUDED                                    *)
C4_OneSurvivor ==
    (MarkedValid /\ DistinctIds(cards)) =>
        \A group \in GroupsOf(result[1]) :
            /\ Survivors(group) # {}
            /\ Cardinality(Members(group) \ WithStatus(cards, EXCLUDED)) <= 1

(* a group of three members, all included before the call, one after it *)
C4_Witness ==
    /\ MarkedValid /\ DistinctIds(cards)
    /\ \E group \in GroupsOf(result[1]) :
          /\ Cardinality(Members(group)) = 3
          /\ Members(group) \subseteq WithStatus(last.pre, INCLUDED)
          /\ Cardinality(Members(group) \cap WithStatus(cards, INCLUDED)) = 1

(* the key a strategy maximises, as an integer: 2*importance + difficulty   *)
(* (three times the score), or the importance                               *)
Key(card, keep_strategy) ==
    IF keep_strategy = HIGHEST_SCORE THEN 2 * card.importance + card.difficulty
    ELSE card.importance

(* the survivor the strategy names: the primary, or the first member in the *)
(* order [primary_card] + duplicates whose key no member exceeds            *)
ExpectedSurvivor(cs, group, keep_strategy) ==
    IF keep_strategy = FIRST THEN group.primary_card
    ELSE LET order == all_cards(group)
             p == CHOOSE p \in DOMAIN order :
                     /\ \A q \in DOMAIN order :
                            Key(cs[order[q]], keep_strategy) <= Key(cs[order[p]], keep_strategy)
                     /\ \A q \in 1..(p - 1) :
                            Key(cs[order[q]], keep_strategy) < Key(cs[order[p]], keep_strategy)
         IN order[p]

(* C5: the member left alone by mark_duplicates_excluded is the primary for *)
(* "first", the first member of greatest score for "highest_score", the     *)
(* first member of greatest importance for "highest_importance"; every      *)
(* other member is EXCLUDED                                                 *)
C5_SurvivorIdentity ==
    (MarkedValid /\ DistinctIds(cards)) =>
        \A group \in GroupsOf(result[1]) :
            ExpectedSurvivor(last.pre, group, last.arg) \in Survivors(group)

(* highest_score on a group whose primary ties with a duplicate for the     *)
(* greatest score: the primary stays included, the duplicate is excluded    *)
C5_Witness ==
    /\ Marked /\ last.arg = HIGHEST_SCORE
    /\ \E group \in GroupsOf(result[1]) : \E d \in Members(group) \ {group.primary_card} :
          /\ Key(cards[d], HIGHEST_SCORE) = Key(cards[group.primary_card], HIGHEST_SCORE)
          /\ ExpectedSurvivor(last.pre, group, HIGHEST_SCORE) = group.primary_card
          /\ last.pre[d].status = INCLUDED /\ cards[d].status = EXCLUDED
          /\ cards[group.primary_card].status = INCLUDED

(* C6 as claimed: an unknown keep_strategy is rejected with an error and no *)
(* card changes                                                             *)
C6_InvalidRejected ==
    (Marked /\ last.arg \notin KeepStrategies) =>
        (last.ret.raised /\ cards = last.pre)

(* C7 as claimed: the returned count is the number of cards EXCLUDED after  *)
(* the call that were not EXCLUDED before it                                *)
C7_CountNewlyExcluded ==
    Marked =>
        last.ret.excluded_count =
            Cardinality(WithStatus(cards, EXCLUDED) \ WithStatus(last.pre, EXCLUDED))

(* the members of the groups other than each group's survivor *)
NonSurvivors(cs, res, keep_strategy) ==
    {k \in DOMAIN cs : \E group \in GroupsOf(res) :
        k \in Members(group) /\ k # ExpectedSurvivor(cs, group, keep_strategy)}

(* C7 as amended: the returned count is the number of members the call set  *)
(* to EXCLUDED, one for every member of a group other than its survivor,    *)
(* whether or not it was EXCLUDED before: it is duplicates_found, and the   *)
(* number of newly EXCLUDED cards plus the number of non-survivors that     *)
(* were EXCLUDED already                                                    *)
C7_CountMarked ==
    (MarkedValid /\ DistinctIds(cards)) =>
        LET marked == NonSurvivors(last.pre, result[1], last.arg) IN
        /\ last.ret.excluded_count = Cardinality(marked)
        /\ last.ret.excluded_count = duplicates_found(result[1])
        /\ last.ret.excluded_count =
               Cardinality(WithStatus(cards, EXCLUDED) \ WithStatus(last.pre, EXCLUDED))
               + Cardinality(marked \cap WithStatus(last.pre, EXCLUDED))

(* a call that counts a member excluded before it and one excluded by it *)
C7_Witness ==
    /\ MarkedValid
    /\ LET marked == NonSurvivors(last.pre, result[1], last.arg) IN
       /\ marked \cap WithStatus(last.pre, EXCLUDED) # {}
       /\ marked \cap WithStatus(last.pre, INCLUDED) # {}
       /\ last.ret.excluded_count = Cardinality(marked)

----------------------------------------------------------------------------
(* Properties of the read-only calls *)

Previewed == last.op = "preview_threshold"
ReadOnlyCalls == {"preview_threshold", "get_score_distribution", "rank_cards", "find_duplicates"}

(* C9: preview_threshold(cards, t) reports as would_include the number of   *)
(* cards INCLUDED after apply_threshold on a copy of the cards, as          *)
(* would_exclude the number EXCLUDED, and the two add up to total, the      *)
(* length of the list                                                       *)
C9_PreviewAgrees ==
    Previewed =>
        LET applied == apply_threshold(last.pre, last.arg) IN
        /\ last.ret.would_include = Cardinality(WithStatus(applied, INCLUDED))
        /\ last.ret.would_exclude = Cardinality(WithStatus(applied, EXCLUDED))
        /\ last.ret.would_include + last.ret.would_exclude = last.ret.total
        /\ last.ret.total = Len(last.pre)

(* a preview at a threshold that one card's score equals and another's      *)
(* falls below                                                              *)
C9_Witness ==
    /\ Previewed
    /\ last.ret.would_include >= 1 /\ last.ret.would_exclude >= 1
    /\ \E k \in DOMAIN cards :
          10 * (2 * cards[k].importance + cards[k].difficulty) = 3 * last.arg

(* C10: preview_threshold, get_score_distribution, rank_cards and           *)
(* find_duplicates leave every card as it was, and preview_threshold leaves *)
(* the recorded threshold as it was                                         *)
C10_ReadOnly ==
    /\ last.op \in ReadOnlyCalls => cards = last.pre
    /\ Previewed => threshold = last.pre_threshold

(* a preview, on a batch with a recorded threshold, at another threshold    *)
(* that would change the status of a card                                   *)
C10_Witness ==
    /\ Previewed
    /\ threshold # <<>> /\ threshold # <<last.arg>>
    /\ apply_threshold(cards, last.arg) # cards

----------------------------------------------------------------------------
(* One call on a fresh list of any ratings: the ranker's functions, and     *)
(* find_duplicates followed by mark_duplicates_excluded                     *)

InitScore ==
    \E n \in 0..MaxScoreCards : \E r \in [1..n -> ScoreRatings] :
        InitSession(ScoreList(n, r))

NextScore ==
    \/ /\ last.op = "init"
       /\ \/ RankCards
          \/ GetScoreDistribution
          \/ \E t10 \in ScoreThresholds : PreviewThreshold(t10)
          \/ \E thr100 \in SimThresholds : FindDuplicates(thr100, TRUE)
    \/ /\ last.op = "find_duplicates"
       /\ \E keep_strategy \in KeepStrategies : MarkDuplicatesExcluded(keep_strategy)

SpecScore == InitScore /\ [][NextScore]_vars

Ranked == last.op = "rank_cards"

(* the list of the cards the references name *)
Pick(cs, refs) == [k \in 1..Len(refs) |-> cs[refs[k]]]

(* three times the score *)
ScoreKey(card) == 2 * card.importance + card.difficulty

(* C11: rank_cards returns a permutation of its input in non-increasing     *)
(* score order, cards of equal score in their input order; ranking the      *)
(* ranked list again leaves its order as it is                              *)
C11_StableRank ==
    Ranked =>
        LET ranked == last.ret IN
        /\ Len(ranked) = Len(cards)
        /\ {ranked[k] : k \in DOMAIN ranked} = DOMAIN cards
        /\ \A a, b \in DOMAIN ranked : a < b =>
               /\ ScoreKey(cards[ranked[a]]) >= ScoreKey(cards[ranked[b]])
               /\ ScoreKey(cards[ranked[a]]) = ScoreKey(cards[ranked[b]]) => ranked[a] < ranked[b]
        /\ rank_cards(Pick(cards, ranked)) = [k \in 1..Len(ranked) |-> k]

(* a ranking that moves a card and keeps two cards of equal score and       *)
(* different ratings in their input order                                   *)
C11_Witness ==
    /\ Ranked
    /\ \E a \in DOMAIN last.ret : last.ret[a] # a
    /\ \E a, b \in DOMAIN cards :
          /\ a < b
          /\ ScoreKey(cards[a]) = ScoreKey(cards[b])
          /\ cards[a].importance # cards[b].importance

----------------------------------------------------------------------------
(* Frame and idempotence of the two mutating calls *)

(* the cards that are a member of some group of the result *)
Grouped(res) == UNION {Members(group) : group \in GroupsOf(res)}

(* C12: mark_duplicates_excluded changes nothing but statuses, sets no      *)
(* status to INCLUDED, leaves every card outside the groups as it was, and  *)
(* leaves the survivor of each group as it was, EXCLUDED if it was EXCLUDED *)
C12_MarkFrame ==
    Marked =>
        /\ Len(cards) = Len(last.pre)
        /\ \A k \in DOMAIN cards :
               /\ cards[k] = [last.pre[k] EXCEPT !.status = cards[k].status]
               /\ cards[k].status = INCLUDED => last.pre[k].status = INCLUDED
               /\ k \notin Grouped(result[1]) => cards[k].status = last.pre[k].status
        /\ (MarkedValid /\ DistinctIds(cards)) =>
               \A group \in GroupsOf(result[1]) :
                   LET m == ExpectedSurvivor(last.pre, group, last.arg) IN
                   cards[m].status = last.pre[m].status

(* a call that excludes a member of a group whose survivor was EXCLUDED     *)
(* already and stays so, with a card outside every group                    *)
C12_Witness ==
    /\ MarkedValid
    /\ cards # last.pre
    /\ DOMAIN cards \ Grouped(result[1]) # {}
    /\ \E group \in GroupsOf(result[1]) :
          LET m == ExpectedSurvivor(last.pre, group, last.arg) IN
          /\ last.pre[m].status = EXCLUDED /\ cards[m].status = EXCLUDED
          /\ \E o \in Members(group) :
                last.pre[o].status = INCLUDED /\ cards[o].status = EXCLUDED

(* C13: a second apply_threshold with the same threshold, and a second      *)
(* mark_duplicates_excluded with the same result and strategy, leave the    *)
(* statuses the first call left                                             *)
C13_Idempotent ==
    /\ Thresholded => apply_threshold(cards, last.arg) = cards
    /\ MarkedValid =>
           mark_duplicates_excluded(cards, result[1], last.arg).cards = cards

(* a mark_duplicates_excluded that marks members and changes no status: the *)
(* call repeated                                                            *)
C13_Witness ==
    /\ MarkedValid
    /\ last.ret.excluded_count > 0
    /\ cards = last.pre
    /\ \E group \in GroupsOf(result[1]) :
          Cardinality(Members(group) \cap WithStatus(cards, INCLUDED)) = 1

----------------------------------------------------------------------------
(* The string functions of deduplicator.py on two strings *)

(* the letters of the strings compared *)
Letters == {"a", "b"}

(* a session that holds no cards, and the input of the call to come *)
InitInput(input) ==
    /\ cards = <<>>
    /\ threshold = <<>>
    /\ similarity_threshold = 85
    /\ result = <<>>
    /\ session = NoSession
    /\ last = Call("input", input, <<>>, <<>>)

InitText ==
    \E n1, n2 \in 0..MaxStrLen : \E s1 \in [1..n1 -> Letters], s2 \in [1..n2 -> Letters] :
        InitInput(<<s1, s2>>)

(* deduplicator.py: levenshtein_distance *)
LevenshteinDistance ==
    /\ last.op = "input"
    /\ last' = Call("levenshtein_distance", last.arg,
                    levenshtein_distance(last.arg[1], last.arg[2]), <<>>)
    /\ UNCHANGED <<session, cards, threshold, similarity_threshold, result>>

(* deduplicator.py: similarity_ratio *)
SimilarityRatio ==
    /\ last.op = "input"
    /\ last' = Call("similarity_ratio", last.arg,
                    similarity_ratio(last.arg[1], last.arg[2]), <<>>)
    /\ UNCHANGED <<session, cards, threshold, similarity_threshold, result>>

NextText == LevenshteinDistance \/ SimilarityRatio

SpecText == InitText /\ [][NextText]_vars

MinOf(S) == CHOOSE x \in S : \A y \in S : x <= y

(* the edit distance by its recurrence: the fewest insertions, deletions    *)
(* and substitutions that turn a into b                                     *)
RECURSIVE EditDistance(_, _)
EditDistance(a, b) ==
    IF a = <<>> THEN Len(b)
    ELSE IF b = <<>> THEN Len(a)
    ELSE MinOf({EditDistance(Tail(a), b) + 1,
                EditDistance(a, Tail(b)) + 1,
                EditDistance(Tail(a), Tail(b)) + (IF Head(a) = Head(b) THEN 0 ELSE 1)})

(* the number of positions at which two strings of one length differ *)
Hamming(a, b) == Cardinality({k \in DOMAIN a : a[k] # b[k]})

(* C14: levenshtein_distance is the edit distance and is symmetric;         *)
(* similarity_ratio is 1 - distance / max(len) , 1.0 for two empty strings, *)
(* 0.0 when one is empty, 1.0 for equal strings, and within [0, 1]          *)
C14_EditDistance ==
    LET a == last.arg[1]
        b == last.arg[2]
    IN /\ last.op = "levenshtein_distance" =>
              /\ last.ret = EditDistance(a, b)
              /\ last.ret = levenshtein_distance(b, a)
       /\ last.op = "similarity_ratio" =>
              LET sim == last.ret
                  longest == IF Len(a) >= Len(b) THEN Len(a) ELSE Len(b)
              IN /\ sim.den > 0 /\ 0 <= sim.num /\ sim.num <= sim.den
                 /\ (a = <<>> /\ b = <<>>) => IsOne(sim)
                 /\ ((a = <<>>) # (b = <<>>)) => sim.num = 0
                 /\ (a # <<>> /\ b # <<>>) =>
                        RatioEq(sim, [num |-> longest - EditDistance(a, b), den |-> longest])
                 /\ a = b => IsOne(sim)

(* two strings of one length whose distance is below the number of places   *)
(* where they differ                                                        *)
C14_Witness ==
    /\ last.op = "levenshtein_distance"
    /\ Len(last.arg[1]) = Len(last.arg[2])
    /\ last.ret >= 2
    /\ last.ret < Hamming(last.arg[1], last.arg[2])

----------------------------------------------------------------------------
(* normalize_text on a text with one cloze marker {{cN::inner}} between a   *)
(* prefix and a suffix                                                      *)

Prefixes == { <<>>, <<"a", " ">>, <<"A", ".", "\t">> }
Suffixes == { <<>>, <<" ", "c">>, <<"!", " ", "D">> }
ClozeNumbers == { <<"1">>, <<"1", "2">> }
InnerTexts ==
    { <<>>, <<"b">>, <<"B", "!">>, <<"b", " ", " ", "x">>, <<"b", "\n", "x">>,
      <<"b", " ", "{", "{", "c", "2", ":", ":", "x", "}", "}">> }

(* the text with the marker, and the text with the marker replaced by its   *)
(* inner text                                                               *)
WithMarker(in) ==
    in.prefix \o <<"{", "{", "c">> \o in.number \o <<":", ":">> \o in.inner
        \o <<"}", "}">> \o in.suffix
WithoutMarker(in) == in.prefix \o in.inner \o in.suffix

(* the text in capitals, every white space doubled, with a closing mark *)
UpperChar(ch) ==
    CASE ch = "a" -> "A" [] ch = "b" -> "B" [] ch = "c" -> "C" [] ch = "d" -> "D"
      [] ch = "x" -> "X" [] OTHER -> ch

RECURSIVE Varied(_)
Varied(text) ==
    IF text = <<>> THEN <<"!">>
    ELSE IF IsSpaceChar(Head(text)) THEN <<Head(text), Head(text)>> \o Varied(Tail(text))
    ELSE <<UpperChar(Head(text))>> \o Varied(Tail(text))

InitCloze ==
    \E prefix \in Prefixes, number \in ClozeNumbers, inner \in InnerTexts, suffix \in Suffixes :
        InitInput([prefix |-> prefix, number |-> number, inner |-> inner, suffix |-> suffix])

(* deduplicator.py: normalize_text, on the marked text, on the unmarked     *)
(* text and on the unmarked text varied in case, punctuation and spacing    *)
NormalizeText ==
    /\ last.op = "input"
    /\ last' = Call("normalize_text", last.arg,
                    [marked |-> normalize_text(WithMarker(last.arg)),
                     unmarked |-> normalize_text(WithoutMarker(last.arg)),
                     varied |-> normalize_text(Varied(WithoutMarker(last.arg)))], <<>>)
    /\ UNCHANGED <<session, cards, threshold, similarity_threshold, result>>

NextCloze == NormalizeText

SpecCloze == InitCloze /\ [][NextCloze]_vars

(* C15 as claimed: a text with a marker {{cN::t}} normalizes to what the    *)
(* text with t in place of the marker normalizes to, for any t and N, and   *)
(* the normalized form does not depend on case, punctuation and runs of     *)
(* white space                                                              *)
C15_ClozeUnwrapped ==
    last.op = "normalize_text" =>
        /\ last.ret.marked = last.ret.unmarked
        /\ last.ret.varied = last.ret.unmarked

----------------------------------------------------------------------------
(* agent.py: the editing calls of the agent on the cards of one chapter.    *)
(* Time stamps are left out.                                                *)

(* Mutation: the value is capped at 10 only *)
ClampUpperOnly(v) == Min2(10, v)

(* `max(1, min(10, v))` *)
Clamp(v) == Max2(1, Min2(10, v))

(* Mutation: every snapshot is numbered with the length of the history *)
save_version_numbered_from_zero(card, editor_note) ==
    [card EXCEPT !.version_history =
        Append(@, [version |-> Len(card.version_history),
                   question |-> card.question,
                   answer |-> card.answer,
                   cloze_text |-> card.cloze_text,
                   importance |-> card.importance,
                   difficulty |-> card.difficulty,
                   editor_note |-> editor_note])]

(* models.py: Card.save_version *)
save_version(card, editor_note) ==
    [card EXCEPT !.version_history =
        Append(@, [version |-> Len(card.version_history) + 1,
                   question |-> card.question,
                   answer |-> card.answer,
                   cloze_text |-> card.cloze_text,
                   importance |-> card.importance,
                   difficulty |-> card.difficulty,
                   editor_note |-> editor_note])]

(* models.py: Card.create_reverse; <<>> is None *)
create_reverse(card) ==
    IF card.format # QA \/ card.question = <<>> \/ card.answer = <<>> THEN <<>>
    ELSE << [id |-> card.id \o "_rev",
             format |-> QA,
             question |-> card.answer,
             answer |-> card.question,
             cloze_text |-> <<>>,
             importance |-> card.importance,
             difficulty |-> card.difficulty,
             source_chapter_index |-> card.source_chapter_index,
             status |-> card.status,
             version_history |-> <<>>,
             is_reverse |-> TRUE,
             original_card_id |-> <<card.id>>] >>

(* agent.py: edit_card, the updates of the card found; an argument that is  *)
(* None is <<>>                                                             *)
edit_card(card, question, answer, cloze_text, importance, difficulty, save, editor_note) ==
    LET saved == IF save THEN save_version(card, editor_note) ELSE card
        content == IF card.format = QA
                   THEN [saved EXCEPT !.question = IF question # <<>> THEN question[1] ELSE @,
                                      !.answer = IF answer # <<>> THEN answer[1] ELSE @]
                   ELSE [saved EXCEPT !.cloze_text = IF cloze_text # <<>> THEN cloze_text[1] ELSE @]
    IN [content EXCEPT !.importance = IF importance # <<>> THEN Clamp(importance[1]) ELSE @,
                       !.difficulty = IF difficulty # <<>> THEN Clamp(difficulty[1]) ELSE @]

(* an id no card has *)
MissingId == "9"

(* agent.py: edit_card *)
EditCard(card_id, question, answer, cloze_text, importance, difficulty, save) ==
    LET target == FirstWithId(cards, card_id) IN
    /\ target # 0 /\ save => Len(cards[target].version_history) < MaxVersions
    /\ cards' = IF target = 0 THEN cards
                ELSE [cards EXCEPT ![target] =
                         edit_card(@, question, answer, cloze_text, importance, difficulty,
                                   save, <<>>)]
    /\ last' = Call("edit_card",
                    [card_id |-> card_id, importance |-> importance, difficulty |-> difficulty],
                    [raised |-> target = 0], cards)
    /\ session' = IF target = 0 THEN session ELSE save_checkpoint(session, cards')
    /\ UNCHANGED <<threshold, similarity_threshold, result>>

(* agent.py: create_reverse_card *)
CreateReverseCard(card_id) ==
    LET target == FirstWithId(cards, card_id)
        reverse == IF target = 0 THEN <<>> ELSE create_reverse(cards[target])
    IN /\ Len(cards) < MaxAgentCards
       /\ cards' = cards \o reverse
       /\ last' = Call("create_reverse_card", card_id,
                       [raised |-> target = 0, created |-> reverse # <<>>], cards)
       /\ session' = IF reverse = <<>> THEN session ELSE save_checkpoint(session, cards')
       /\ UNCHANGED <<threshold, similarity_threshold, result>>

(* agent.py: remove_duplicates: find_duplicates across chapters at the      *)
(* deduplicator's current threshold, then mark_duplicates_excluded          *)
RemoveDuplicates(keep_strategy) ==
    LET res == find_duplicates(cards, similarity_threshold, TRUE)
        out == mark_duplicates_excluded(cards, res, keep_strategy)
    IN /\ result' = <<res>>
       /\ cards' = out.cards
       /\ last' = Call("remove_duplicates", keep_strategy,
                       [duplicates_removed |-> out.excluded_count,
                        groups_processed |-> Len(res.duplicate_groups)], cards)
       /\ session' = save_checkpoint(session, cards')
       /\ UNCHANGED <<threshold, similarity_threshold>>

(* every pair of ratings *)
AllRatings == (1..10) \X (1..10)

(* the values given for importance and for difficulty in an edit *)
EditImportance == { <<>>, <<0>>, <<11>> }
EditDifficulty == { <<>>, <<5>> }

(* the cards the user edits: the first two generated *)
EditedIds == {"1", "2"}

(* An editing session: one card of any ratings, or several cards of one     *)
(* text; edits of the ratings of these cards, then thresholds, rankings  *)
(* and removals over all cards                                              *)
InitEdit ==
    \E n \in 1..MaxEditCards :
        \E r \in [1..n -> IF n = 1 THEN AllRatings ELSE Ratings] :
            InitSession(ScoreList(n, r))

NextEdit ==
    \/ \E card_id \in EditedIds, importance \in EditImportance, difficulty \in EditDifficulty :
           EditCard(card_id, <<>>, <<>>, <<>>, importance, difficulty, FALSE)
    \/ \E t10 \in ScoreThresholds : ApplyCustomThreshold(t10)
    \/ RankCards
    \/ RemoveDuplicates(HIGHEST_SCORE)

SpecEdit == InitEdit /\ [][NextEdit]_vars

(* C16: Card.compute_score and compute_card_score agree on every card, on   *)
(* (2*importance + difficulty)/3, which is within [1, 10]; a threshold, a   *)
(* ranking and the highest_score choice made after an edit follow the       *)
(* ratings as edited                                                        *)
C16_ScoreFromRatings ==
    /\ \A k \in DOMAIN cards :
           /\ compute_score(cards[k]) = compute_card_score(cards[k])
           /\ RatioEq(compute_card_score(cards[k]), [num |-> ScoreKey(cards[k]), den |-> 3])
           /\ RatioGeq(compute_score(cards[k]), One)
           /\ RatioGeq([num |-> 10, den |-> 1], compute_score(cards[k]))
    /\ last.op = "apply_custom_threshold" =>
           \A k \in DOMAIN cards :
               cards[k].status = INCLUDED <=> 10 * ScoreKey(cards[k]) >= 3 * last.arg
    /\ Ranked =>
           \A a, b \in DOMAIN last.ret :
               a < b => ScoreKey(cards[last.ret[a]]) >= ScoreKey(cards[last.ret[b]])
    /\ last.op = "remove_duplicates" =>
           \A group \in GroupsOf(result[1]) : \A m \in Members(group) :
               cards[m].status # EXCLUDED =>
                   \A o \in Members(group) : ScoreKey(cards[o]) <= ScoreKey(cards[m])

(* a removal that keeps the second of two equal cards, whose score an edit  *)
(* has raised above the first's                                             *)
C16_Witness ==
    /\ last.op = "remove_duplicates"
    /\ \E group \in GroupsOf(result[1]) : \E m \in Members(group) :
          /\ m # group.primary_card
          /\ cards[m].status = INCLUDED
          /\ cards[m].importance = 10
          /\ cards[group.primary_card].status = EXCLUDED
          /\ last.pre[group.primary_card].status = INCLUDED

----------------------------------------------------------------------------
(* An agent session on the generated cards of one chapter: reverse cards,   *)
(* toggles, edits and removals.  The generated cards carry the distinct ids *)
(* the generator gave them.                                                 *)

AgentContents == {AbD, ClozeAbC}

AgentList(n, c) == [k \in 1..n |-> NewCard(k, c[k], DefaultRating, 0)]

(* the ids a call may name: those of the cards held, and one no card has *)
IdsHeld == {cards[k].id : k \in DOMAIN cards} \cup {MissingId}

InitAgent ==
    \E n \in 1..2 : \E c \in [1..n -> AgentContents] : InitSession(AgentList(n, c))

NextAgent ==
    \/ \E card_id \in IdsHeld : CreateReverseCard(card_id)
    \/ \E k \in 1..MaxAgentCards : ToggleCard(k)
    \/ \E card_id \in IdsHeld, importance \in {<<>>, <<11>>} :
           EditCard(card_id, <<>>, <<>>, <<>>, importance, <<>>, FALSE)
    \/ \E keep_strategy \in {FIRST, HIGHEST_SCORE} : RemoveDuplicates(keep_strategy)

SpecAgent == InitAgent /\ [][NextAgent]_vars

(* C20 as claimed: the cards of a session have pairwise distinct ids *)
C20_IdsUnique == DistinctIds(cards)

----------------------------------------------------------------------------
(* Properties of the density thresholds, of the score distribution and of   *)
(* the calls on an empty list                                               *)

Included(cs) == WithStatus(cs, INCLUDED)

(* C17: apply_density_threshold records 7.0 for LIGHT, 5.0 for MEDIUM and   *)
(* 3.0 for THOROUGH and leaves the statuses apply_threshold with that       *)
(* number leaves; apply_custom_threshold records the number given; the      *)
(* cards INCLUDED under LIGHT are INCLUDED under MEDIUM, and those under    *)
(* MEDIUM are INCLUDED under THOROUGH                                       *)
C17_DensityThreshold ==
    /\ last.op = "apply_density_threshold" =>
           LET t10 == CASE last.arg = LIGHT -> 70
                        [] last.arg = MEDIUM -> 50
                        [] last.arg = THOROUGH -> 30
           IN threshold = <<t10>> /\ cards = apply_threshold(last.pre, t10)
    /\ last.op = "apply_custom_threshold" =>
           threshold = <<last.arg>> /\ cards = apply_threshold(last.pre, last.arg)
    /\ Included(apply_threshold(cards, get_default_threshold(LIGHT)))
           \subseteq Included(apply_threshold(cards, get_default_threshold(MEDIUM)))
    /\ Included(apply_threshold(cards, get_default_threshold(MEDIUM)))
           \subseteq Included(apply_threshold(cards, get_default_threshold(THOROUGH)))

(* MEDIUM applied to cards of which LIGHT includes none, MEDIUM some and    *)
(* THOROUGH all, with a status changed by the call                          *)
C17_Witness ==
    /\ last.op = "apply_density_threshold" /\ last.arg = MEDIUM
    /\ threshold = <<50>>
    /\ cards # last.pre
    /\ Included(apply_threshold(cards, 70)) = {}
    /\ Included(cards) # {} /\ Included(cards) # DOMAIN cards
    /\ Included(apply_threshold(cards, 30)) = DOMAIN cards

Distributed == last.op = "get_score_distribution"

(* the k-th smallest of three times the scores of the cards *)
KthKey(cs, k) ==
    CHOOSE v \in {ScoreKey(cs[i]) : i \in DOMAIN cs} :
        /\ Cardinality({i \in DOMAIN cs : ScoreKey(cs[i]) < v}) < k
        /\ Cardinality({i \in DOMAIN cs : ScoreKey(cs[i]) <= v}) >= k

(* six times the median of the scores *)
MedianKey(cs) ==
    LET n == Len(cs) IN
    IF n % 2 = 1 THEN 2 * KthKey(cs, (n + 1) \div 2)
    ELSE KthKey(cs, n \div 2) + KthKey(cs, (n \div 2) + 1)

(* t10 tenths is the value num/den exactly; is the tenth nearest to it *)
ExactTenths(t10, num, den) == t10 * den = 10 * num
NearestTenths(t10, num, den) ==
    /\ 2 * (t10 * den - 10 * num) <= den
    /\ 2 * (10 * num - t10 * den) <= den

(* the histogram counts every card once, by its score *)
BucketsCount(cs, buckets) ==
    /\ buckets.low = Cardinality({i \in DOMAIN cs : ScoreKey(cs[i]) < 12})
    /\ buckets.medium =
           Cardinality({i \in DOMAIN cs : 12 <= ScoreKey(cs[i]) /\ ScoreKey(cs[i]) < 18})
    /\ buckets.high =
           Cardinality({i \in DOMAIN cs : 18 <= ScoreKey(cs[i]) /\ ScoreKey(cs[i]) < 24})
    /\ buckets.critical = Cardinality({i \in DOMAIN cs : 24 <= ScoreKey(cs[i])})
    /\ buckets.low + buckets.medium + buckets.high + buckets.critical = Len(cs)

(* C18 as claimed: for a non-empty list total is its length, min and max    *)
(* are the smallest and the largest score, median is the middle score or    *)
(* the average of the two middle scores, and the four buckets count every   *)
(* card once                                                                *)
C18_ExactStatistics ==
    (Distributed /\ cards # <<>>) =>
        LET stats == last.ret.stats IN
        /\ stats.total = Len(cards)
        /\ ExactTenths(stats.min, KthKey(cards, 1), 3)
        /\ ExactTenths(stats.max, KthKey(cards, Len(cards)), 3)
        /\ ExactTenths(stats.median, MedianKey(cards), 6)
        /\ BucketsCount(cards, stats.buckets)

(* C18 as amended: min, max and median are the smallest score, the largest  *)
(* score and the median of the scores, each rounded to one decimal          *)
C18_RoundedStatistics ==
    (Distributed /\ cards # <<>>) =>
        LET stats == last.ret.stats IN
        /\ stats.total = Len(cards)
        /\ NearestTenths(stats.min, KthKey(cards, 1), 3)
        /\ NearestTenths(stats.max, KthKey(cards, Len(cards)), 3)
        /\ NearestTenths(stats.median, MedianKey(cards), 6)
        /\ BucketsCount(cards, stats.buckets)

(* an even number of cards whose two middle scores differ, the smallest     *)
(* score 11/3 reported as 3.7                                               *)
C18_Witness ==
    /\ Distributed
    /\ Len(cards) % 2 = 0 /\ Len(cards) >= 2
    /\ KthKey(cards, Len(cards) \div 2) # KthKey(cards, (Len(cards) \div 2) + 1)
    /\ KthKey(cards, 1) = 11
    /\ last.ret.stats.min = 37

(* C19: on an empty list find_duplicates returns zero counters and no       *)
(* group, mark_duplicates_excluded on that result returns 0,                *)
(* get_score_distribution returns zeros and empty buckets, and              *)
(* preview_threshold returns zero counts                                    *)
C19_EmptyInput ==
    last.pre = <<>> =>
        /\ Found =>
               last.ret = [total_cards |-> 0, unique_cards |-> 0, duplicate_groups |-> <<>>,
                           exact_duplicates |-> 0, similar_duplicates |-> 0]
        /\ Marked => (~last.ret.raised /\ last.ret.excluded_count = 0 /\ cards = <<>>)
        /\ Distributed =>
               /\ last.ret.mean = 0
               /\ last.ret.stats =
                      [min |-> 0, max |-> 0, median |-> 0, total |-> 0, buckets |-> <<>>]
        /\ Previewed =>
               /\ last.ret.would_include = 0
               /\ last.ret.would_exclude = 0
               /\ last.ret.total = 0

(* mark_duplicates_excluded on the result of find_duplicates on no cards *)
C19_Witness ==
    /\ Marked
    /\ last.pre = <<>>
    /\ result = <<find_duplicates(<<>>, similarity_threshold, TRUE)>>
    /\ last.ret.excluded_count = 0

----------------------------------------------------------------------------
(* Version history of a card: snapshots saved by edits and by explicit      *)
(* calls, restores to version numbers that exist and that do not            *)

(* models.py: Card.restore_version; ok is the value returned *)
restore_version(card, version_number) ==
    IF version_number < 1 \/ version_number > Len(card.version_history)
    THEN [card |-> card, ok |-> FALSE]
    ELSE LET version == card.version_history[version_number]
             saved == save_version(card, <<"Before restoring">>)
             content == IF card.format = QA
                        THEN [saved EXCEPT !.question = version.question,
                                           !.answer = version.answer]
                        ELSE [saved EXCEPT !.cloze_text = version.cloze_text]
         IN [card |-> [content EXCEPT !.importance = version.importance,
                                      !.difficulty = version.difficulty],
             ok |-> TRUE]

(* models.py: Card.save_version called on the card with that id *)
SaveVersion(card_id) ==
    LET target == FirstWithId(cards, card_id) IN
    /\ target # 0
    /\ Len(cards[target].version_history) < MaxVersions
    /\ cards' = [cards EXCEPT ![target] = save_version(@, <<>>)]
    /\ last' = Call("save_version", [card_id |-> card_id], <<>>, cards)
    /\ UNCHANGED <<session, threshold, similarity_threshold, result>>

(* agent.py: restore_card_version; ValueError when the card or the version  *)
(* is not found                                                             *)
RestoreCardVersion(card_id, version_number) ==
    LET target == FirstWithId(cards, card_id)
        out == IF target = 0 THEN [ok |-> FALSE]
               ELSE restore_version(cards[target], version_number)
    IN /\ out.ok => Len(cards[target].version_history) < MaxVersions
       /\ cards' = IF out.ok THEN [cards EXCEPT ![target] = out.card] ELSE cards
       /\ last' = Call("restore_card_version",
                       [card_id |-> card_id, version_number |-> version_number],
                       [raised |-> ~out.ok], cards)
       /\ session' = IF out.ok THEN save_checkpoint(session, cards') ELSE session
       /\ UNCHANGED <<threshold, similarity_threshold, result>>

(* the edits made: (question, answer, cloze_text, importance, difficulty),  *)
(* ratings below 1 and above 10 among them                                  *)
Edits ==
    { << <<>>, <<>>, <<>>, <<0>>, <<>> >>,
      << <<XbD.question>>, <<AbC.answer>>, <<ClozeAbC.cloze_text>>, <<11>>, <<-2>> >> }

(* the contents of the versioned card: a question and answer, a cloze *)
VersionContents ==
    {AbD, [format |-> CLOZE, question |-> <<>>, answer |-> <<>>, cloze_text |-> <<"a">>]}

InitVersion ==
    \E c \in VersionContents, r \in Ratings : InitSession(<<NewCard(1, c, r, 0)>>)

NextVersion ==
    \/ \E card_id \in {"1", MissingId}, e \in Edits, save \in BOOLEAN :
           EditCard(card_id, e[1], e[2], e[3], e[4], e[5], save)
    \/ SaveVersion("1")
    \/ \E card_id \in {"1", MissingId}, version_number \in 0..(MaxVersions + 1) :
           RestoreCardVersion(card_id, version_number)

SpecVersion == InitVersion /\ [][NextVersion]_vars

InRange(v) == 1 <= v /\ v <= 10

(* C21: after edits with ratings in and out of range and after restores,    *)
(* the importance and the difficulty of every card are within 1..10 and its *)
(* score is within [1, 10]                                                  *)
C21_RatingsInRange ==
    \A k \in DOMAIN cards :
        /\ InRange(cards[k].importance)
        /\ InRange(cards[k].difficulty)
        /\ 3 <= ScoreKey(cards[k]) /\ ScoreKey(cards[k]) <= 30
        /\ RatioGeq(compute_score(cards[k]), One)
        /\ RatioGeq([num |-> 10, den |-> 1], compute_score(cards[k]))

(* a restore that brought back ratings saved before an edit which gave a    *)
(* rating below 1 and was stored as 1                                       *)
C21_Witness ==
    /\ last.op = "restore_card_version" /\ ~last.ret.raised
    /\ last.pre[1].importance = 1
    /\ cards[1].importance # 1
    /\ \E v \in DOMAIN cards[1].version_history :
           cards[1].version_history[v].importance = 1

Versioned == last.op \in {"save_version", "edit_card", "restore_card_version"}

(* the content and ratings a snapshot holds *)
Snapshot(card) ==
    [question |-> card.question, answer |-> card.answer, cloze_text |-> card.cloze_text,
     importance |-> card.importance, difficulty |-> card.difficulty]

SnapshotOf(version) ==
    [question |-> version.question, answer |-> version.answer,
     cloze_text |-> version.cloze_text,
     importance |-> version.importance, difficulty |-> version.difficulty]

(* the call appended one snapshot of the card as it was before the call *)
AppendedOne(before, after) ==
    /\ Len(after.version_history) = Len(before.version_history) + 1
    /\ SubSeq(after.version_history, 1, Len(before.version_history)) = before.version_history
    /\ SnapshotOf(after.version_history[Len(after.version_history)]) = Snapshot(before)

(* C22: the versions of a card are numbered 1, 2, ... in order; a call      *)
(* never changes or removes an earlier entry; save_version and a restore    *)
(* to an existing version append one snapshot of the card before the call;  *)
(* a restore to a number below 1 or above the length of the history fails   *)
(* and changes nothing                                                      *)
C22_HistoryAppendOnly ==
    /\ \A k \in DOMAIN cards : \A v \in DOMAIN cards[k].version_history :
           cards[k].version_history[v].version = v
    /\ Versioned =>
           \A k \in DOMAIN cards :
               /\ Len(cards[k].version_history) >= Len(last.pre[k].version_history)
               /\ SubSeq(cards[k].version_history, 1, Len(last.pre[k].version_history))
                      = last.pre[k].version_history
    /\ last.op = "save_version" => AppendedOne(last.pre[1], cards[1])
    /\ (last.op = "restore_card_version" /\ last.arg.card_id = "1") =>
           LET n == last.arg.version_number
               held == Len(last.pre[1].version_history)
           IN IF n < 1 \/ n > held
              THEN last.ret.raised /\ cards = last.pre
              ELSE /\ ~last.ret.raised
                   /\ AppendedOne(last.pre[1], cards[1])
                   /\ Snapshot(cards[1]).importance = last.pre[1].version_history[n].importance
                   /\ Snapshot(cards[1]).difficulty = last.pre[1].version_history[n].difficulty

(* a restore to version 1 of a history of two, after which the history has  *)
(* three entries and the card differs from what it was                      *)
C22_Witness ==
    /\ last.op = "restore_card_version" /\ ~last.ret.raised
    /\ last.arg.version_number = 1
    /\ Len(last.pre[1].version_history) = 2
    /\ Len(cards[1].version_history) = 3
    /\ Snapshot(cards[1]) # Snapshot(last.pre[1])

----------------------------------------------------------------------------
(* Cost estimates over the chapters of a book.  A chapter is its index and  *)
(* its word count; of an estimate the chapter count, the word total and the *)
(* indices of the chapters estimated are kept, the token and price          *)
(* arithmetic is left out.                                                  *)

SeqMembers(seq) == {seq[i] : i \in DOMAIN seq}

RECURSIVE TotalWords(_)
TotalWords(chapters) ==
    IF chapters = <<>> THEN 0 ELSE Head(chapters).word_count + TotalWords(Tail(chapters))

(* cost_estimator.py: CostEstimator.estimate_book; chapter_indices is <<>>  *)
(* for None, else <<list>>; `if chapter_indices:` is false for None and for *)
(* an empty list                                                            *)
estimate_book(book, chapter_indices) ==
    LET chapters == IF chapter_indices # <<>> /\ chapter_indices[1] # <<>>
                    THEN SelectSeq(book, LAMBDA ch : ch.index \in SeqMembers(chapter_indices[1]))
                    ELSE book
    IN [chapters_count |-> Len(chapters),
        total_words |-> TotalWords(chapters),
        chapter_estimates |-> [i \in DOMAIN chapters |-> chapters[i].index]]

(* the indices of the chapters of the book that are not in `processed` *)
RemainingIndices(book, processed) ==
    LET remaining == SelectSeq(book, LAMBDA ch : ch.index \notin processed)
    IN [i \in DOMAIN remaining |-> remaining[i].index]

(* cost_estimator.py: CostEstimator.estimate_remaining *)
estimate_remaining(book, processed_indices) ==
    estimate_book(book, <<RemainingIndices(book, SeqMembers(processed_indices))>>)

(* agent.py: estimate_cost; chapter_cards is the set of generated indices *)
estimate_cost(book, chapter_cards, chapter_indices) ==
    estimate_book(book, IF chapter_indices = <<>>
                        THEN <<RemainingIndices(book, chapter_cards)>>
                        ELSE chapter_indices)

WordCounts == {1000, 1500}

(* the processed indices, in increasing order *)
RECURSIVE IndexList(_)
IndexList(S) ==
    IF S = {} THEN <<>>
    ELSE LET m == CHOOSE x \in S : \A y \in S : x <= y
         IN <<m>> \o IndexList(S \ {m})

(* a parsed book: chapters indexed 0, 1, ... and a set of them processed *)
InitCost ==
    \E n \in 1..MaxChapters : \E w \in [1..n -> WordCounts] :
        \E processed \in SUBSET (0..(n - 1)) :
            InitInput([book |-> [i \in 1..n |-> [index |-> i - 1, word_count |-> w[i]]],
                       processed |-> processed])

EstimateRemaining ==
    /\ last.op = "input"
    /\ last' = Call("estimate_remaining", last.arg,
                    estimate_remaining(last.arg.book, IndexList(last.arg.processed)), <<>>)
    /\ UNCHANGED <<session, cards, threshold, similarity_threshold, result>>

EstimateCost ==
    /\ last.op = "input"
    /\ last' = Call("estimate_cost", last.arg,
                    estimate_cost(last.arg.book, last.arg.processed, <<>>), <<>>)
    /\ UNCHANGED <<session, cards, threshold, similarity_threshold, result>>

NextCost == EstimateRemaining \/ EstimateCost

SpecCost == InitCost /\ [][NextCost]_vars

(* the chapters of the book whose index is not processed *)
Unprocessed(arg) == {i \in DOMAIN arg.book : arg.book[i].index \notin arg.processed}

RECURSIVE SumWords(_, _)
SumWords(book, S) ==
    IF S = {} THEN 0
    ELSE LET i == CHOOSE x \in S : TRUE
         IN book[i].word_count + SumWords(book, S \ {i})

(* C23 as claimed: estimate_remaining, and estimate_cost without indices,   *)
(* count the chapters not yet processed and total their words, for every    *)
(* set of processed chapters, all of them included                          *)
C23_EstimatesRemaining ==
    last.op \in {"estimate_remaining", "estimate_cost"} =>
        /\ last.ret.chapters_count = Cardinality(Unprocessed(last.arg))
        /\ last.ret.total_words = SumWords(last.arg.book, Unprocessed(last.arg))

----------------------------------------------------------------------------
(* The groups of one sweep, looked at one by one: find_duplicates called    *)
(* once, across chapters or within them, on a fresh list                    *)

InitSweep ==
    \E n \in 0..MaxSweepCards : \E c \in [1..n -> Contents], ch \in [1..n -> Chapters] :
        InitSession(ChapterList(n, c, ch))

NextSweep ==
    /\ last.op = "init"
    /\ \E thr100 \in SimThresholds, cross_chapter \in BOOLEAN :
           FindDuplicates(thr100, cross_chapter)

SpecSweep == InitSweep /\ [][NextSweep]_vars

(* the two cards match: equal normalized text, or a ratio at the threshold *)
Match(cs, a, b, thr100) ==
    \/ Norm(cs, a) = Norm(cs, b)
    \/ LET sim == similarity_ratio(Norm(cs, a), Norm(cs, b))
       IN 100 * sim.num >= thr100 * sim.den

(* the references listed as a duplicate by some group *)
ListedDuplicates(res) ==
    UNION {Members(group) \ {group.primary_card} : group \in GroupsOf(res)}

IsRatioOf(sim, a, b) ==
    LET longest == Max2(Len(a), Len(b)) IN
    IF longest = 0 THEN IsOne(sim)
    ELSE sim.num * longest = (longest - levenshtein_distance(a, b)) * sim.den

(* the scores of all groups, as (group, position) pairs *)
ScoreEntries(res) ==
    {e \in (DOMAIN res.duplicate_groups) \X (1..MaxSweepCards) :
        e[2] \in DOMAIN res.duplicate_groups[e[1]].similarity_scores}

(* C25: a group has one score for each duplicate, in the same order; the    *)
(* score is 1.0 exactly when the duplicate's normalized text equals the      *)
(* primary's, and is otherwise the similarity ratio to the primary, at or   *)
(* above the threshold and below 1; exact_duplicates counts the scores that *)
(* are 1.0 and similar_duplicates those below                               *)
C25_ScoresAligned ==
    (Found /\ DistinctIds(cards)) =>
        LET res == last.ret
            thr100 == last.arg[1]
        IN /\ \A group \in GroupsOf(res) :
                  /\ Len(group.similarity_scores) = Len(group.duplicates)
                  /\ \A d \in DOMAIN group.duplicates :
                         LET sim == group.similarity_scores[d]
                             text1 == Norm(cards, group.primary_card)
                             text2 == Norm(cards, group.duplicates[d])
                         IN /\ IsOne(sim) <=> text1 = text2
                            /\ text1 # text2 =>
                                   /\ IsRatioOf(sim, text1, text2)
                                   /\ 100 * sim.num >= thr100 * sim.den
                                   /\ sim.num < sim.den
           /\ res.exact_duplicates =
                  Cardinality({e \in ScoreEntries(res) :
                      IsOne(res.duplicate_groups[e[1]].similarity_scores[e[2]])})
           /\ res.similar_duplicates =
                  Cardinality({e \in ScoreEntries(res) :
                      ~IsOne(res.duplicate_groups[e[1]].similarity_scores[e[2]])})

(* a group whose first duplicate is a near match and whose second is exact *)
C25_Witness ==
    /\ Found /\ DistinctIds(cards)
    /\ \E group \in GroupsOf(last.ret) :
          /\ Len(group.duplicates) = 2
          /\ ~IsOne(group.similarity_scores[1])
          /\ IsOne(group.similarity_scores[2])
          /\ Norm(cards, group.duplicates[2]) = Norm(cards, group.primary_card)

----------------------------------------------------------------------------
(* Deduplication of freshly generated cards: find_duplicates across         *)
(* chapters, then mark_duplicates_excluded, or both through                 *)
(* remove_duplicates.  Every card is INCLUDED before, so the cards that are *)
(* not EXCLUDED afterwards are those deduplication left un-excluded.        *)

DedupeContents == {AbC, AbD, XbD}

(* generated cards that alternate between two chapters *)
DedupeList(n, c, r) == [k \in 1..n |-> NewCard(k, c[k], r[k], k % 2)]

InitDedupe ==
    \E n \in 0..MaxDedupeCards : \E c \in [1..n -> DedupeContents], r \in [1..n -> Ratings] :
        InitSession(DedupeList(n, c, r))

NextDedupe ==
    \/ /\ last.op = "init"
       /\ \/ \E thr100 \in SimThresholds : FindDuplicates(thr100, TRUE)
          \/ RemoveDuplicates(HIGHEST_SCORE)
    \/ /\ last.op = "find_duplicates"
       /\ \E keep_strategy \in KeepStrategies : MarkDuplicatesExcluded(keep_strategy)

SpecDedupe == InitDedupe /\ [][NextDedupe]_vars

(* the cards deduplication left un-excluded *)
Kept == {k \in DOMAIN cards : cards[k].status # EXCLUDED}

(* mark_duplicates_excluded has run with that strategy, directly or through *)
(* remove_duplicates                                                        *)
Deduplicated(keep_strategy) ==
    /\ last.op \in {"mark_duplicates_excluded", "remove_duplicates"}
    /\ last.arg = keep_strategy
    /\ DistinctIds(cards)

(* C26: after find_duplicates across chapters no two cards that are not     *)
(* listed as a duplicate match each other; after mark_duplicates_excluded   *)
(* with "first" no two cards left un-excluded match each other              *)
C26_PrimariesApart ==
    /\ (FoundCross /\ DistinctIds(cards)) =>
           \A a, b \in DOMAIN cards \ ListedDuplicates(last.ret) :
               a # b => ~Match(cards, a, b, last.arg[1])
    /\ Deduplicated(FIRST) =>
           \A a, b \in Kept : a # b => ~Match(cards, a, b, similarity_threshold)

(* "first" excluded a near match of its primary that also matches the other *)
(* card left, a card of another chapter that is no match of the primary     *)
C26_Witness ==
    /\ Deduplicated(FIRST)
    /\ Cardinality(Kept) = 2
    /\ \E d \in DOMAIN cards \ Kept : \E a, b \in Kept :
          /\ a = result[1].duplicate_groups[1].primary_card
          /\ Norm(cards, d) # Norm(cards, a)
          /\ Match(cards, b, d, similarity_threshold)
          /\ ~Match(cards, a, b, similarity_threshold)
          /\ cards[a].source_chapter_index # cards[b].source_chapter_index

(* C27: after find_duplicates across chapters and mark_duplicates_excluded  *)
(* with any of the three strategies, no two cards left un-excluded have     *)
(* equal normalized text                                                    *)
C27_NoExactPairSurvives ==
    (\E keep_strategy \in KeepStrategies : Deduplicated(keep_strategy)) =>
        \A a, b \in Kept : a # b => Norm(cards, a) # Norm(cards, b)

(* two cards of one text, both duplicates of an earlier near match, of      *)
(* which the strategy kept one and excluded the primary                     *)
C27_Witness ==
    /\ Deduplicated(HIGHEST_IMPORTANCE)
    /\ \E group \in GroupsOf(result[1]) :
          /\ Len(group.duplicates) = 2
          /\ Norm(cards, group.duplicates[1]) = Norm(cards, group.duplicates[2])
          /\ Norm(cards, group.duplicates[1]) # Norm(cards, group.primary_card)
          /\ group.primary_card \notin Kept
          /\ Kept \cap Members(group) # {}

(* C28 as claimed: after find_duplicates across chapters and                *)
(* mark_duplicates_excluded with "highest_score" no two cards left          *)
(* un-excluded have a similarity ratio at or above the threshold            *)
C28_NoNearPairSurvives ==
    Deduplicated(HIGHEST_SCORE) =>
        \A a, b \in Kept : a # b => ~Match(cards, a, b, similarity_threshold)

(* C28 as amended: every group keeps one card; two cards left un-excluded   *)
(* never have equal normalized text, and they match each other only when    *)
(* one of them is a duplicate that was kept in place of its group's primary *)
C28_OneKeptPerGroup ==
    Deduplicated(HIGHEST_SCORE) =>
        /\ \A group \in GroupsOf(result[1]) : Cardinality(Kept \cap Members(group)) = 1
        /\ \A a, b \in Kept :
               a # b =>
                   /\ Norm(cards, a) # Norm(cards, b)
                   /\ Match(cards, a, b, similarity_threshold) =>
                          (a \in ListedDuplicates(result[1]) \/ b \in ListedDuplicates(result[1]))

(* the kept card of a group is a duplicate, and it matches a card outside   *)
(* the group that is kept as well                                           *)
C28_Witness ==
    /\ Deduplicated(HIGHEST_SCORE)
    /\ \E a, b \in Kept :
          /\ a # b
          /\ a \in ListedDuplicates(result[1])
          /\ Match(cards, a, b, similarity_threshold)

----------------------------------------------------------------------------
(* cli.py: generate.  The cards of the chapters processed, chapter after    *)
(* chapter: each chapter's cards are ranked and get the threshold of that   *)
(* chapter's density; then the duplicates over all cards are marked.        *)

(* ranker/card_ranker.py: CardRanker.rank_chapter, the list as reordered *)
rank_chapter(cs) ==
    LET refs == rank_cards(cs) IN [k \in 1..Len(refs) |-> cs[refs[k]]]

(* cli.py: the body of the loop over chapters in auto mode without a        *)
(* --threshold: rank_chapter, then apply_density_threshold                  *)
ProcessChapter(cs, density) ==
    apply_threshold(rank_chapter(cs), get_default_threshold(density))

(* cli.py: the loop over the chapters; densities[chapter] is                *)
(* chapter_densities.get(chapter.index, density_enum)                       *)
GenerateChapters(densities) ==
    /\ last.op = "init"
    /\ cards' = ProcessChapter(ChapterCards(cards, 0), densities[0])
                    \o ProcessChapter(ChapterCards(cards, 1), densities[1])
    /\ threshold' = <<[chapter \in Chapters |-> get_default_threshold(densities[chapter])]>>
    /\ last' = Call("generate_chapters", densities, <<>>, cards)
    /\ UNCHANGED <<session, similarity_threshold, result>>

(* cli.py: the duplicate check after the loop, in auto mode: a new          *)
(* deduplicator (threshold 0.85), find_duplicates over all cards and, when  *)
(* it found any, mark_duplicates_excluded(result, "highest_score")          *)
DedupeStep ==
    /\ last.op = "generate_chapters"
    /\ \A chapter \in Chapters : ChapterCards(cards, chapter) # <<>>
    /\ LET res == find_duplicates(cards, 85, TRUE)
           out == IF duplicates_found(res) > 0
                  THEN mark_duplicates_excluded(cards, res, HIGHEST_SCORE)
                  ELSE [cards |-> cards, excluded_count |-> 0, raised |-> FALSE]
       IN /\ result' = <<res>>
          /\ cards' = out.cards
          /\ last' = Call("dedupe", <<>>, [removed |-> out.excluded_count], cards)
    /\ UNCHANGED <<session, threshold, similarity_threshold>>

(* the cards generated for two chapters, the first chapter's first *)
PipeList(n, n0, c, r) ==
    [k \in 1..n |-> NewCard(k, c[k], r[k], IF k <= n0 THEN 0 ELSE 1)]

InitPipe ==
    \E n \in 1..MaxPipeCards, n0 \in 0..MaxPipeCards :
        /\ n0 <= n
        /\ \E c \in [1..n -> RatedContents], r \in [1..n -> Ratings] :
               InitSession(PipeList(n, n0, c, r))

NextPipe ==
    \/ \E densities \in [Chapters -> Density] : GenerateChapters(densities)
    \/ DedupeStep

SpecPipe == InitPipe /\ [][NextPipe]_vars

(* C29 as claimed: after the thresholds of the chapters and then the        *)
(* marking of duplicates with "highest_score", every group that had an      *)
(* INCLUDED member before the marking has exactly one INCLUDED member       *)
C29_FactNotDropped ==
    last.op = "dedupe" =>
        \A group \in GroupsOf(result[1]) :
            (\E m \in Members(group) : last.pre[m].status = INCLUDED) =>
                Cardinality({m \in Members(group) : cards[m].status = INCLUDED}) = 1

----------------------------------------------------------------------------
(* agent.py: a session of the agent over books, with its checkpoint.  A     *)
(* book is its title; its output directory, and so its checkpoint file, is  *)
(* named after the title.  A book has one chapter, for which the generator  *)
(* yields one card.  Ids are those of the chapter (the generator draws them *)
(* at random).                                                              *)

Titles == {"A", "B"}

SessionChapters == {0}

(* the content generated from a book *)
ContentOf(title) == IF title = "A" THEN AbD ELSE XbD

InitAgentSession ==
    /\ cards = <<>>
    /\ threshold = <<>>
    /\ similarity_threshold = 85
    /\ result = <<>>
    /\ session = [NoSession EXCEPT !.files = [title \in Titles |-> <<>>]]
    /\ last = Call("init", <<>>, <<>>, cards)

(* agent.py: load_book *)
LoadBook(title) ==
    /\ cards' = <<>>
    /\ session' = [session EXCEPT !.book = <<title>>, !.chapter_cards = {}]
    /\ last' = Call("load_book", title,
                    [can_resume |-> /\ session.files[title] # <<>>
                                    /\ session.files[title][1].book_title = title],
                    cards)
    /\ UNCHANGED <<threshold, similarity_threshold, result>>

(* agent.py: generate_chapter *)
GenerateChapter(chapter) ==
    /\ session.book # <<>>
    /\ LET generated == <<NewCard(chapter + 1, ContentOf(session.book[1]), DefaultRating,
                                  chapter)>>
       IN cards' = SelectSeq(cards, LAMBDA card : card.source_chapter_index # chapter)
                       \o rank_chapter(generated)
    /\ session' = save_checkpoint([session EXCEPT !.chapter_cards = @ \cup {chapter}], cards')
    /\ last' = Call("generate_chapter", chapter, <<>>, cards)
    /\ UNCHANGED <<threshold, similarity_threshold, result>>

(* agent.py: apply_threshold on a chapter that has been generated *)
AgentApplyThreshold(chapter, t10) ==
    /\ chapter \in session.chapter_cards
    /\ cards' = [k \in DOMAIN cards |->
                    IF cards[k].source_chapter_index = chapter
                    THEN [cards[k] EXCEPT !.status = ThresholdStatus(cards[k], t10)]
                    ELSE cards[k]]
    /\ threshold' = <<t10>>
    /\ session' = save_checkpoint(session, cards')
    /\ last' = Call("apply_threshold", <<chapter, t10>>, <<>>, cards)
    /\ UNCHANGED <<similarity_threshold, result>>

(* agent.py: clear_checkpoint, with checkpoint.py: delete *)
ClearCheckpoint ==
    LET deleted == session.book # <<>> /\ session.files[session.book[1]] # <<>> IN
    /\ session' = IF deleted
                   THEN [session EXCEPT !.checkpoint = <<>>, !.files[session.book[1]] = <<>>]
                   ELSE session
    /\ last' = Call("clear_checkpoint", <<>>, [deleted |-> deleted], cards)
    /\ UNCHANGED <<cards, threshold, similarity_threshold, result>>

NextAgentSession ==
    \/ \E title \in Titles : LoadBook(title)
    \/ \E chapter \in SessionChapters : GenerateChapter(chapter)
    \/ \E chapter \in SessionChapters : AgentApplyThreshold(chapter, 70)
    \/ ToggleCard(1)
    \/ \E card_id \in {"1", MissingId} :
           EditCard(card_id, <<>>, <<>>, <<>>, <<11>>, <<>>, FALSE)
    \/ RemoveDuplicates(HIGHEST_SCORE)
    \/ ClearCheckpoint

SpecAgentSession == InitAgentSession /\ [][NextAgentSession]_vars

(* a call that saved the checkpoint of a session that holds chapters *)
Saved ==
    /\ last.op \in {"generate_chapter", "apply_threshold", "toggle_card", "edit_card",
                     "remove_duplicates"}
    /\ session.book # <<>>
    /\ session.chapter_cards # {}

(* C30 as claimed: after a call that saves it, the checkpoint file of the   *)
(* loaded book carries that book's title and holds exactly the chapters of  *)
(* the session, each with its cards as they are                             *)
C30_CheckpointCurrent ==
    Saved =>
        LET file == session.files[session.book[1]] IN
        /\ file # <<>>
        /\ file[1].book_title = session.book[1]
        /\ DOMAIN file[1].chapters_processed = session.chapter_cards
        /\ \A chapter \in session.chapter_cards :
               file[1].chapters_processed[chapter] = ChapterCards(cards, chapter)

====
